---------------------------- MODULE Spec2Model ----------------------------
(***************************************************************************)
(* grub-wiz: the interactive session over /etc/default/grub.               *)
(*                                                                         *)
(* The state is that of GrubWiz (src/grub_wiz/main.py), its ScreenStack,   *)
(* its BackupMgr (src/grub_wiz/BackupMgr.py), its hider                    *)
(* (src/grub_wiz/WizHides.py) and its validator                            *)
(* (src/grub_wiz/WizValidator.py).  One step of the model is one pass of       *)
(* GrubWiz.main_loop from a blocking read (win.prompt, win.answer) to the  *)
(* next one, the rendering of the next frame included.                     *)
(*                                                                         *)
(* Python strings are sequences of one-character strings, so that str(),   *)
(* re.match and strip are computed and not assumed.                        *)
(***************************************************************************)
EXTENDS Integers, Sequences, FiniteSets, TLC

VARIABLES
    pc,                 \* where main_loop is blocked
    arg,                \* the local the pending prompt works on (name / doomed)
    sections,           \* GrubWiz.sections
    param_cfg,          \* GrubWiz.param_cfg
    param_names,        \* GrubWiz.param_names
    param_values,       \* GrubWiz.param_values
    prev_values,        \* GrubWiz.prev_values
    must_reviews,       \* GrubWiz.must_reviews
    target,             \* the content of /etc/default/grub
    files,              \* the *.bak files of the backup directory
    backups,            \* GrubWiz.backups (with ordered_backup_pairs)
    ss_curr,            \* ScreenStack.curr
    ss_stack,           \* ScreenStack.stack
    pick_pos,           \* win.pick_pos
    scroll_pos,         \* win.scroll_pos
    prev_pos,           \* GrubWiz.prev_pos
    hider_params,       \* WizHides.params
    hider_warns,        \* WizHides.warns
    dirty_count,        \* WizHides.dirty_count
    hidden_yaml,        \* the content of hidden-items.yaml
    show_hidden_params, \* GrubWiz.show_hidden_params
    show_hidden_warns,  \* GrubWiz.show_hidden_warns
    commits,            \* history: the writes of the target by commits
    deletes,            \* history: the backups deleted
    last,               \* history: how the latest handler ended
    cyc,                \* history: the run of cycle steps in progress
    spins,              \* the action flags of OptionSpinner.default_obj that are set
    disk_layout_cache,  \* WizValidator._disk_layout_cache
    disk,               \* what lsblk and efibootmgr print, the paths that exist
    warned,             \* history: the latest call of make_warns
    kept                \* history: an earlier call of make_warns

vars == <<pc, arg, sections, param_cfg, param_names, param_values,
          prev_values, must_reviews, target, files, backups, ss_curr, ss_stack, pick_pos,
          scroll_pos, prev_pos, hider_params, hider_warns, dirty_count,
          hidden_yaml, show_hidden_params, show_hidden_warns, commits, deletes,
          last, cyc, spins, disk_layout_cache, disk, warned, kept>>

sessionVars == <<sections, param_cfg, param_names, param_values, prev_values,
                 must_reviews>>
screenVars  == <<ss_curr, ss_stack, pick_pos, scroll_pos, prev_pos>>
hiderVars   == <<hider_params, hider_warns, dirty_count, hidden_yaml,
                 show_hidden_params, show_hidden_warns>>
backupVars  == <<files, backups>>
validatorVars == <<disk_layout_cache, disk>>
\* everything but the history of outcomes and of cycle steps
progVars    == <<pc, arg, sessionVars, target, backupVars, screenVars,
                 hiderVars, validatorVars, spins, commits, deletes>>

-----------------------------------------------------------------------------
(* Bounds of the model.                                                    *)

\* enum choices kept per catalog parameter (the catalog lists up to six)
MaxChoices == 3
\* writes of the target file by commits, per behaviour
MaxCommits == 1
\* backups deleted, per behaviour
MaxDeletes == 1
\* the lines the window can scroll its view down by
MaxScroll  == 1
MaxDirty   == 1

-----------------------------------------------------------------------------
(* Python values: int and str, and str() of them.                          *)

Min(a, b) == IF a < b THEN a ELSE b
Max(a, b) == IF a > b THEN a ELSE b

I(n)  == [k |-> "int", i |-> n, s |-> <<>>]
S(cs) == [k |-> "str", i |-> 0, s |-> cs]

Digits == <<"0", "1", "2", "3", "4", "5", "6", "7", "8", "9">>

RECURSIVE NatToStr(_)
NatToStr(n) ==
    IF n < 10 THEN <<Digits[n + 1]>>
    ELSE NatToStr(n \div 10) \o <<Digits[(n % 10) + 1]>>

IntToStr(n) == IF n < 0 THEN <<"-">> \o NatToStr(-n) ELSE NatToStr(n)

\* str(value)
Str(v) == IF v.k = "int" THEN IntToStr(v.i) ELSE v.s

IsDigit(c) == \E j \in 1..10 : Digits[j] = c
IsSpace(c) == c \in {" ", "\t", "\n"}
IsTagChar(c) ==
    \/ IsDigit(c)
    \/ c \in {"-", "_"}
    \/ c \in {"a", "b", "c", "d", "e", "f", "g", "h", "i", "j", "k", "l", "m",
              "n", "o", "p", "q", "r", "s", "t", "u", "v", "w", "x", "y", "z"}
    \/ c \in {"A", "B", "C", "D", "E", "F", "G", "H", "I", "J", "K", "L", "M",
              "N", "O", "P", "Q", "R", "S", "T", "U", "V", "W", "X", "Y", "Z"}

\* str.strip()
RECURSIVE LStrip(_)
LStrip(cs) == IF cs # <<>> /\ IsSpace(Head(cs)) THEN LStrip(Tail(cs)) ELSE cs
RECURSIVE RStrip(_)
RStrip(cs) ==
    IF cs # <<>> /\ IsSpace(cs[Len(cs)]) THEN RStrip(SubSeq(cs, 1, Len(cs) - 1))
    ELSE cs
Strip(cs) == RStrip(LStrip(cs))

\* '$' also matches just before one trailing newline
DollarTrim(cs) ==
    IF cs # <<>> /\ cs[Len(cs)] = "\n" THEN SubSeq(cs, 1, Len(cs) - 1) ELSE cs

AllDigits(cs) == cs # <<>> /\ \A j \in 1..Len(cs) : IsDigit(cs[j])

\* re.match(regex, text) for the patterns of the catalog and of the prompts
ReMatch(regex, text) ==
    CASE regex = "^-?\\d+$" ->
            LET t == DollarTrim(text)
                u == IF t # <<>> /\ Head(t) = "-" THEN Tail(t) ELSE t
            IN  AllDigits(u)
      [] regex = "^[-_A-Za-z0-9]+$" ->
            LET t == DollarTrim(text)
            IN  t # <<>> /\ \A j \in 1..Len(t) : IsTagChar(t[j])
      [] OTHER -> FALSE

Uppers == <<"A", "B", "C", "D", "E", "F", "G", "H", "I", "J", "K", "L", "M",
            "N", "O", "P", "Q", "R", "S", "T", "U", "V", "W", "X", "Y", "Z">>
Lowers == <<"a", "b", "c", "d", "e", "f", "g", "h", "i", "j", "k", "l", "m",
            "n", "o", "p", "q", "r", "s", "t", "u", "v", "w", "x", "y", "z">>

\* str.lower()
Lower(cs) ==
    [j \in 1..Len(cs) |->
        IF \E m \in 1..26 : Uppers[m] = cs[j]
        THEN Lowers[CHOOSE m \in 1..26 : Uppers[m] = cs[j]] ELSE cs[j]]

\* prefix in text, and word in text
StartsWith(cs, w) == Len(cs) >= Len(w) /\ SubSeq(cs, 1, Len(w)) = w
Contains(cs, w) ==
    \E j \in 0..(Len(cs) - Len(w)) : SubSeq(cs, j + 1, j + Len(w)) = w

\* text.strip(q) for a single character q
RECURSIVE LStripChar(_, _)
LStripChar(cs, q) ==
    IF cs # <<>> /\ Head(cs) = q THEN LStripChar(Tail(cs), q) ELSE cs

\* text.replace(old, new)
RECURSIVE Replace(_, _, _)
Replace(cs, old, new) ==
    IF cs = <<>> THEN <<>>
    ELSE IF StartsWith(cs, old)
         THEN new \o Replace(SubSeq(cs, Len(old) + 1, Len(cs)), old, new)
         ELSE <<Head(cs)>> \o Replace(Tail(cs), old, new)

\* text.split(sep) for a single character sep
RECURSIVE Split(_, _)
Split(cs, sep) ==
    IF \A j \in 1..Len(cs) : cs[j] # sep THEN <<cs>>
    ELSE LET j == CHOOSE m \in 1..Len(cs) :
                      cs[m] = sep /\ \A n \in 1..(m - 1) : cs[n] # sep
         IN  <<SubSeq(cs, 1, j - 1)>> \o Split(SubSeq(cs, j + 1, Len(cs)), sep)

-----------------------------------------------------------------------------
(* The catalog (CannedConfig) and the target file.                         *)

HOME_ST    == 0
REVIEW_ST  == 1
RESTORE_ST == 2
HELP_ST    == 3

None == "None"

TimeoutKeys == <<-1, 0, 2, 5, 15, 60>>
StyleKeys   == <<<<"m", "e", "n", "u">>,
                 <<"c", "o", "u", "n", "t", "d", "o", "w", "n">>,
                 <<"h", "i", "d", "d", "e", "n">>>>

\* CannedConfig().data: the sections in order, each with its parameters
Sections ==
    << [name |-> "Timeout & Menu",
        params |-> <<"GRUB_TIMEOUT", "GRUB_TIMEOUT_STYLE">>],
       [name |-> "Kernel Arguments",
        params |-> <<"GRUB_CMDLINE_LINUX">>] >>

DefinedNames == <<"GRUB_TIMEOUT", "GRUB_TIMEOUT_STYLE", "GRUB_CMDLINE_LINUX">>

Range(f) == {f[j] : j \in DOMAIN f}

\* the payload of one catalog parameter: default, enums (keys in order), edit_re
Payload(name) ==
    CASE name = "GRUB_TIMEOUT" ->
            [default |-> I(5),
             enums   |-> [j \in 1..Len(TimeoutKeys) |-> I(TimeoutKeys[j])],
             edit_re |-> "^-?\\d+$"]
      [] name = "GRUB_TIMEOUT_STYLE" ->
            [default |-> S(StyleKeys[1]),
             enums   |-> [j \in 1..Len(StyleKeys) |-> S(StyleKeys[j])],
             edit_re |-> None]
      [] name = "GRUB_CMDLINE_LINUX" ->
            [default |-> S(<<>>), enums |-> <<>>, edit_re |-> None]

\* a parameter the target file does not set
Absent == <<"#unset">>


\* GrubParser.vals as _reinit reads them: the value of the file, or the default
ParsedValue(tgt, name) ==
    IF tgt[name] = Absent THEN Payload(name).default ELSE S(tgt[name])

\* update_grub: the lines NAME=value written for the parameters of the session;
\* the lines of the other parameters are carried over
Contents(names, values, tgt) ==
    [n \in Range(DefinedNames) |->
        IF n \in Range(names) THEN Str(values[n]) ELSE tgt[n]]

-----------------------------------------------------------------------------
(* BackupMgr.                                                              *)

HashMod == 16777213

Alphabet ==
    <<"0", "1", "2", "3", "4", "5", "6", "7", "8", "9", "-", "_", " ", "\t",
      "\n", "'", "\"", "=", "a", "b", "c", "d", "e", "f", "g", "h", "i", "j",
      "k", "l", "m", "n", "o", "p", "q", "r", "s", "t", "u", "v", "w", "x",
      "y", "z">>

CharCode(c) == CHOOSE j \in 1..Len(Alphabet) : Alphabet[j] = c

RECURSIVE HashStr(_, _)
HashStr(h, cs) ==
    IF cs = <<>> THEN h
    ELSE HashStr((h * 31 + CharCode(Head(cs))) % HashMod, Tail(cs))

RECURSIVE HashLines(_, _, _)
HashLines(h, tgt, j) ==
    IF j > Len(DefinedNames) THEN h
    ELSE LET n == DefinedNames[j]
         IN  IF tgt[n] = Absent THEN HashLines(h, tgt, j + 1)
             ELSE HashLines(
                    HashStr((h * 31 + 100 + j) % HashMod, tgt[n] \o <<"\n">>),
                    tgt, j + 1)

\* BackupMgr.calc_checksum of the target file: a digest of its bytes
calc_checksum(tgt) == HashLines(7, tgt, 1)

\* The backup directory is the sequence of its *.bak files in the order of
\* the timestamps their names start with (oldest first); a file is its
\* checksum and tag (both in the name) and its content.
BackupFile(sum, tag, content) == [sum |-> sum, tag |-> tag, content |-> content]

\* BackupMgr.get_backups: one file per checksum found in the file names
get_backups(fs) ==
    LET RECURSIVE Walk(_)
        Walk(j) ==
            IF j > Len(fs) THEN <<>>
            ELSE (IF \E m \in (j + 1)..Len(fs) : fs[m].sum = fs[j].sum
                  THEN <<>> ELSE <<fs[j]>>) \o Walk(j + 1)
    IN  Walk(1)

Checksums(bk) == {bk[j].sum : j \in DOMAIN bk}

TagOrig == <<"o", "r", "i", "g">>
TagRegex == "^[-_A-Za-z0-9]+$"

\* create_backup without the look-up of the checksum among the backups
create_backup_always(fs, tgt, tag) ==
    Append(fs, BackupFile(calc_checksum(tgt), tag, tgt))

\* create_backup that makes room by dropping the oldest backup
create_backup_rotating(fs, tgt, tag) ==
    LET current_checksum == calc_checksum(tgt)
    IN  IF current_checksum \in Checksums(get_backups(fs)) THEN fs
        ELSE Append(IF fs = <<>> THEN fs ELSE Tail(fs),
                    BackupFile(current_checksum, tag, tgt))

\* BackupMgr.create_backup(tag): the directory after the call
create_backup(fs, tgt, tag) ==
    LET current_checksum == calc_checksum(tgt)
    IN  IF current_checksum \in Checksums(get_backups(fs)) THEN fs
        ELSE Append(fs, BackupFile(current_checksum, tag, tgt))

\* BackupMgr.restore_backup: the target file after the call; `done` is its
\* return value (False: no root permission, no such file, or the copy failed)
restore_backup(tgt, backup_file, done) ==
    IF done THEN backup_file.content ELSE tgt

\* os.unlink(doomed): the directory without that file
unlink(fs, doomed) ==
    LET at == CHOOSE j \in DOMAIN fs : fs[j] = doomed
    IN  SubSeq(fs, 1, at - 1) \o SubSeq(fs, at + 1, Len(fs))

\* sorted(self.backups.items(), key=path, reverse=True): newest first
ordered_backup_pairs(bk) == [j \in 1..Len(bk) |-> bk[Len(bk) + 1 - j]]

\* do_start_up_backup that only refreshes the list
StartUpBackupNever(fs, tgt) ==
    [backups |-> get_backups(fs), files |-> fs, ask |-> FALSE]

\* do_start_up_backup up to its prompt: the list is refreshed, an empty store
\* gets the "orig" backup, a store without the target's checksum asks for a tag
StartUpBackup(fs, tgt) ==
    LET bk == get_backups(fs)
    IN  [backups |-> bk,
         files   |-> IF bk = <<>> THEN create_backup(fs, tgt, TagOrig) ELSE fs,
         ask     |-> bk # <<>> /\ calc_checksum(tgt) \notin Checksums(bk)]

-----------------------------------------------------------------------------
(* GrubWriter (not among the sources): the write of the target file and    *)
(* the regeneration of the boot menu, each of which reports success or     *)
(* failure.                                                                *)

\* commit_validated_grub_config: the target after the call
commit_validated_grub_config(tgt, contents, written) ==
    IF written THEN contents ELSE tgt

-----------------------------------------------------------------------------
(* WizValidator.make_warns, for the parameters of this catalog.  The disk  *)
(* layout flags are all False and the parameters outside this catalog hold *)
(* values that raise no warning.                                           *)

Quoted(q, cs) == <<q>> \o cs \o <<q>>

\* value in quotes(word): equality with one of the three str forms
InQuotes(v, word) ==
    v.k = "str" /\ v.s \in {word, Quoted("\"", word), Quoted("'", word)}

RECURSIVE RStripChar(_, _)
RStripChar(cs, q) ==
    IF cs # <<>> /\ cs[Len(cs)] = q THEN RStripChar(SubSeq(cs, 1, Len(cs) - 1), q)
    ELSE cs

\* make_warns.unquote
unquote(v) ==
    IF v.k = "str" /\ v.s # <<>> /\ Head(v.s) \in {"'", "\""}
    THEN S(RStripChar(Tail(v.s), Head(v.s)))
    ELSE v

\* float(text) > 0 for a decimal numeral with an optional sign; every other
\* text raises ValueError, which make_warns turns into False
FloatPositive(v) ==
    IF v.k = "int" THEN v.i > 0
    ELSE LET t == Strip(v.s)
             u == IF t # <<>> /\ Head(t) \in {"-", "+"} THEN Tail(t) ELSE t
             dots == {j \in 1..Len(u) : u[j] = "."}
             digs == {j \in 1..Len(u) : IsDigit(u[j])}
         IN  /\ digs # {}
             /\ Cardinality(dots) <= 1
             /\ dots \cup digs = 1..Len(u)
             /\ \E j \in digs : u[j] # "0"
             /\ Head(t) # "-"

RECURSIVE StrToNat(_)
StrToNat(cs) ==
    IF cs = <<>> THEN 0
    ELSE 10 * StrToNat(SubSeq(cs, 1, Len(cs) - 1))
         + (CHOOSE d \in 0..9 : Digits[d + 1] = cs[Len(cs)])

Hey(param, severity, message, words) ==
    [param |-> param, stars |-> severity, msg |-> message, words |-> words]

TimeoutLimit == 60

\* vals.get(name): the value, or None
NoneValue == [k |-> "none", i |-> 0, s |-> <<>>]
Get(vals, n) == IF n \in DOMAIN vals THEN vals[n] ELSE NoneValue

\* Best Practice Check 1 and Critical Check 3
timeout_checks(vals) ==
    LET zero_timeout ==
            \/ InQuotes(Get(vals, "GRUB_TIMEOUT"), <<"0">>)
            \/ InQuotes(Get(vals, "GRUB_TIMEOUT"), <<"0", ".", "0">>)
        positive_timeout ==
            /\ "GRUB_TIMEOUT" \in DOMAIN vals
            /\ FloatPositive(unquote(vals["GRUB_TIMEOUT"]))
        style_in(word) == InQuotes(Get(vals, "GRUB_TIMEOUT_STYLE"), word)
        check1 ==
            IF zero_timeout /\ style_in(<<"h", "i", "d", "d", "e", "n">>)
            THEN <<Hey("GRUB_TIMEOUT", 4,
                       "should be positive int when TIMEOUT_STYLE=\"hidden\"",
                       <<"TIMEOUT_STYLE">>)>>
            ELSE <<>>
        check3 ==
            IF positive_timeout /\ ~style_in(<<"m", "e", "n", "u">>)
            THEN <<Hey("GRUB_TIMEOUT_STYLE", 4,
                       "should be \"menu\" when TIMEOUT > 0", <<"TIMEOUT">>)>>
            ELSE <<>>
    IN  check1 \o check3

\* for parameters with a fixed list of possible values, ensure one of them
enum_checks(vals) ==
    LET enum_check(n) ==
            LET cfg == param_cfg[n]
                value == Str(unquote(vals[n]))
            IN  IF /\ n \in DOMAIN param_cfg
                   /\ n \in DOMAIN vals
                   /\ cfg.enums # <<>>
                   /\ cfg.edit_re = None
                   /\ ~\E j \in DOMAIN cfg.enums :
                          value = Str(unquote(S(Str(cfg.enums[j]))))
                THEN <<Hey(n, 3, "value not in list of allowed values", <<>>)>>
                ELSE <<>>
    IN  enum_check(DefinedNames[1]) \o enum_check(DefinedNames[2])
        \o enum_check(DefinedNames[3])

\* timeout_limits
limit_check(vals) ==
    LET val == IF "GRUB_TIMEOUT" \in DOMAIN vals
               THEN Str(unquote(vals["GRUB_TIMEOUT"]))
               ELSE <<"N", "o", "n", "e">>
    IN  IF AllDigits(val) /\ StrToNat(val) > TimeoutLimit
        THEN <<Hey("GRUB_TIMEOUT", 1, "over 60s seems ill advised", <<>>)>>
        ELSE <<>>

\* make_warns(vals): the warnings in the order they are appended
make_warns(vals) == timeout_checks(vals) \o enum_checks(vals) \o limit_check(vals)

-----------------------------------------------------------------------------
(* WizValidator.probe_disk_layout.  A disk is what the probe finds: how     *)
(* lsblk ends ("missing", "denied", "failed" with a non-zero status,        *)
(* "bad_json", "wrong_shape" for JSON that is not a mapping, or "ok" with   *)
(* its block devices), how efibootmgr ends and the lines it prints, and the *)
(* paths that exist.  A partition holds FSTYPE and PARTTYPE, each a string  *)
(* or null.                                                                 *)

Layout(os, luks, lvm) ==
    [probed |-> TRUE, has_another_os |-> os, is_luks_active |-> luks,
     is_lvm_active |-> lvm]

\* _disk_layout_cache = None
NoCache ==
    [probed |-> FALSE, has_another_os |-> FALSE, is_luks_active |-> FALSE,
     is_lvm_active |-> FALSE]

Partition(fstype, parttype) == [FSTYPE |-> fstype, PARTTYPE |-> parttype]

WindowsRecoveryGuid == <<"d", "e", "9", "4", "b", "b", "a", "4", "-", "0", "6", "d", "9", "-", "4", "d", "4", "0", "-", "a", "1", "6", "a", "-", "b", "f", "d", "5", "0", "1", "7", "9", "d", "6", "a", "c">>
LvmGuid == <<"e", "6", "d", "6", "d", "3", "7", "9", "-", "f", "5", "0", "7", "-", "4", "4", "c", "2", "-", "a", "2", "3", "c", "-", "2", "3", "8", "f", "2", "a", "3", "d", "f", "9", "2", "8">>

OtherOsTypes == {<<"n", "t", "f", "s">>, <<"v", "f", "a", "t">>, <<"f", "a", "t", "3", "2">>, <<"e", "x", "f", "a", "t">>}
LuksTypes == {<<"c", "r", "y", "p", "t", "o", "_", "l", "u", "k", "s">>, <<"c", "r", "y", "p", "t", "o", "_", "l", "u", "k", "s", "2">>}

\* the body of the loop over the partitions of one device
ScanPartition(r, p) ==
    IF p.FSTYPE.k # "str" \/ p.PARTTYPE.k # "str"
    THEN [r EXCEPT !.raised = "AttributeError"]
    ELSE LET fstype == Lower(p.FSTYPE.s)
             parttype == Lower(p.PARTTYPE.s)
         IN  [raised |-> None,
              has_another_os |->
                  \/ r.has_another_os
                  \/ fstype \in OtherOsTypes
                  \/ Contains(parttype, WindowsRecoveryGuid),
              is_luks_active |-> r.is_luks_active \/ fstype \in LuksTypes,
              is_lvm_active |->
                  \/ r.is_lvm_active
                  \/ fstype = <<"l", "v", "m", "2", "_", "m", "e", "m", "b", "e", "r">>
                  \/ Contains(parttype, LvmGuid)]

\* for partition in device['children'], left when the three flags are True
RECURSIVE ScanChildren(_, _)
ScanChildren(r, children) ==
    IF children = <<>> \/ r.raised # None THEN r
    ELSE LET q == ScanPartition(r, Head(children))
         IN  IF q.has_another_os /\ q.is_luks_active /\ q.is_lvm_active
             THEN q
             ELSE ScanChildren(q, Tail(children))

\* for device in data.get('blockdevices', [])
RECURSIVE ScanDevices(_, _)
ScanDevices(r, devices) ==
    IF devices = <<>> \/ r.raised # None THEN r
    ELSE ScanDevices(ScanChildren(r, Head(devices)), Tail(devices))

\* the active boot entries among the lines of efibootmgr
BootEntries(lines) ==
    {j \in DOMAIN lines :
        StartsWith(lines[j], <<"B", "o", "o", "t">>) /\ Contains(lines[j], <<"*">>)}

\* probe_disk_layout on a validator that holds cache: the result, the cache
\* it leaves and the exception that leaves it, if any
probe_disk_layout(cache, d) ==
    LET r0 == [raised |-> None, has_another_os |-> FALSE,
               is_luks_active |-> FALSE, is_lvm_active |-> FALSE]
        scan == IF d.lsblk = "ok" THEN ScanDevices(r0, d.blockdevices)
                ELSE IF d.lsblk = "denied"
                     THEN [r0 EXCEPT !.raised = "PermissionError"]
                ELSE IF d.lsblk = "wrong_shape"
                     THEN [r0 EXCEPT !.raised = "AttributeError"]
                ELSE r0
        efi  == /\ ~scan.has_another_os
                /\ d.efibootmgr = "ok"
                /\ Cardinality(BootEntries(d.lines)) >= 2
        done == IF d.lsblk = "failed" THEN Layout(FALSE, FALSE, FALSE)
                ELSE Layout(scan.has_another_os \/ efi, scan.is_luks_active,
                            scan.is_lvm_active)
    IN  IF cache.probed
        THEN [result |-> cache, cache |-> cache, raised |-> None]
        ELSE IF d.lsblk # "failed" /\ scan.raised # None
             THEN [result |-> NoCache, cache |-> cache, raised |-> scan.raised]
             ELSE [result |-> done, cache |-> done, raised |-> None]

\* get_full_path_and_check_existence(path)[0], on the paths that exist
BaseDirs == <<<<"/", "b", "o", "o", "t", "/", "g", "r", "u", "b">>, <<"/", "b", "o", "o", "t", "/", "g", "r", "u", "b", "2">>, <<"/", "u", "s", "r", "/", "s", "h", "a", "r", "e", "/", "g", "r", "u", "b">>, <<"/">>>>

\* os.path.join(base, path) for a relative path
PathJoin(base, path) ==
    IF base[Len(base)] = "/" THEN base \o path ELSE base \o <<"/">> \o path

get_full_path_and_check_existence(path, exists) ==
    LET bare == LStripChar(RStripChar(LStripChar(RStripChar(Strip(path),
                    "\""), "\""), "'"), "'")
        resolved_path ==
            IF StartsWith(bare, <<"$", "p", "r", "e", "f", "i", "x">>)
            THEN Replace(bare, <<"$", "p", "r", "e", "f", "i", "x">>, BaseDirs[1])
            ELSE bare
    IN  IF path = <<>> THEN FALSE
        ELSE IF StartsWith(resolved_path, <<"/">>) THEN resolved_path \in exists
        ELSE \E j \in DOMAIN BaseDirs :
                 PathJoin(BaseDirs[j], resolved_path) \in exists

-----------------------------------------------------------------------------
(* WizValidator.make_warns, every rule of it, on values that may lack keys  *)
(* and on the layout the probe gave.  A rule gives the warnings it appends, *)
(* or the exception it raises.                                              *)

Ok(warns)   == [raised |-> None, warns |-> warns]
Raised(exc) == [raised |-> exc, warns |-> <<>>]

\* the rules one after the other, up to the first that raises
RECURSIVE Chain(_)
Chain(steps) ==
    IF steps = <<>> THEN Ok(<<>>)
    ELSE IF Head(steps).raised # None THEN Raised(Head(steps).raised)
    ELSE LET rest == Chain(Tail(steps))
         IN  IF rest.raised # None THEN rest
             ELSE Ok(Head(steps).warns \o rest.warns)

\* bool(value)
Truthy(v) == (v.k = "str" /\ v.s # <<>>) \/ (v.k = "int" /\ v.i # 0)

Has(vals, n) == n \in DOMAIN vals
GetOr(vals, n, default) == IF n \in DOMAIN vals THEN vals[n] ELSE S(default)

Saved == <<"s", "a", "v", "e", "d">>
True  == <<"t", "r", "u", "e">>

\* the rule of SAVEDEFAULT that never warns
saved_check_never(vals) ==
    IF ~Has(vals, "GRUB_DEFAULT") THEN Raised("KeyError")
    ELSE IF InQuotes(vals["GRUB_DEFAULT"], Saved) /\ ~Has(vals, "GRUB_SAVEDEFAULT")
         THEN Raised("KeyError")
         ELSE Ok(<<>>)

\* if _DEFAULT is saved, then _SAVEDEFAULT must be true
saved_check(vals) ==
    IF ~Has(vals, "GRUB_DEFAULT") THEN Raised("KeyError")
    ELSE IF ~InQuotes(vals["GRUB_DEFAULT"], Saved) THEN Ok(<<>>)
    ELSE IF ~Has(vals, "GRUB_SAVEDEFAULT") THEN Raised("KeyError")
    ELSE IF InQuotes(vals["GRUB_SAVEDEFAULT"], True) THEN Ok(<<>>)
    ELSE Ok(<<Hey("GRUB_SAVEDEFAULT", 4, "must be \"true\" since DEFAULT is \"saved\"",
                  <<"DEFAULT">>)>>)

\* Best Practice Check 2 and the LUKS and LVM arguments of CMDLINE_LINUX
cmdline_checks(vals, layout) ==
    LET p2 == "GRUB_CMDLINE_LINUX"
        has(word) == Contains(vals[p2].s, word)
        warn(cond, msg, words) ==
            IF cond THEN <<Hey(p2, 3, msg, words)>> ELSE <<>>
    IN  IF ~Has(vals, p2) THEN Raised("KeyError")
        ELSE IF vals[p2].k # "str" THEN Raised("TypeError")
        ELSE Ok(warn(has(<<"q", "u", "i", "e", "t">>),
                     "\"quiet\" belongs only in CMDLINE_LINUX_DEFAULT",
                     <<"CMDLINE_LINUX_DEFAULT">>)
                \o warn(has(<<"s", "p", "l", "a", "s", "h">>),
                        "\"splash\" belongs only in CMDLINE_LINUX_DEFAULT",
                        <<"CMDLINE_LINUX_DEFAULT">>)
                \o warn(layout.is_luks_active /\ ~has(<<"r", "d", ".", "l", "u", "k", "s", ".", "u", "u", "i", "d", "=">>),
                        "no \"rd.luks.uuid=\" but LUKS seems active", <<>>)
                \o warn(layout.is_lvm_active /\ ~has(<<"r", "d", ".", "l", "v", "m", ".", "v", "g", "=">>),
                        "no \"rd.lvm.vg=\" but LVM seems active", <<>>))

\* Best Practice Check 3: ENABLE_CRYPTODISK without LUKS
cryptodisk_check(vals, layout) ==
    IF InQuotes(Get(vals, "GRUB_ENABLE_CRYPTODISK"), True) /\ ~layout.is_luks_active
    THEN Ok(<<Hey("GRUB_ENABLE_CRYPTODISK", 1,
                  "enabled but no LUKS encryption detected", <<>>)>>)
    ELSE Ok(<<>>)

\* Best Practice Check 4: recovery cmdline set but recovery disabled
recovery_check(vals) ==
    IF /\ Truthy(Get(vals, "GRUB_CMDLINE_LINUX_RECOVERY"))
       /\ InQuotes(Get(vals, "GRUB_DISABLE_RECOVERY"), True)
    THEN Ok(<<Hey("GRUB_CMDLINE_LINUX_RECOVERY", 2,
                  "set but DISABLE_RECOVERY=\"true\" disables recovery mode",
                  <<"DISABLE_RECOVERY">>)>>)
    ELSE Ok(<<>>)

\* Best Practice Check 5: both UUID types disabled
uuid_check(vals) ==
    IF /\ InQuotes(Get(vals, "GRUB_DISABLE_LINUX_UUID"), True)
       /\ InQuotes(Get(vals, "GRUB_DISABLE_LINUX_PARTUUID"), True)
    THEN Ok(<<Hey("GRUB_DISABLE_LINUX_UUID", 2,
                  "using device names for everything is fragile", <<>>),
              Hey("GRUB_DISABLE_LINUX_PARTUUID", 2,
                  "using device names for everything is fragile", <<>>)>>)
    ELSE Ok(<<>>)

Serial == <<"s", "e", "r", "i", "a", "l">>

\* 'serial' in val_in or 'serial' in val_out: TRUE, FALSE, or "TypeError"
SerialIn(val_in, val_out) ==
    IF val_in.k # "str" THEN "TypeError"
    ELSE IF Contains(val_in.s, Serial) THEN "TRUE"
    ELSE IF val_out.k # "str" THEN "TypeError"
    ELSE IF Contains(val_out.s, Serial) THEN "TRUE" ELSE "FALSE"

\* Best Practice Check 6: terminal I/O mismatch; the message holds both values
terminal_check(vals) ==
    LET val_in  == unquote(GetOr(vals, "GRUB_TERMINAL_INPUT", <<"c", "o", "n", "s", "o", "l", "e">>))
        val_out == unquote(GetOr(vals, "GRUB_TERMINAL_OUTPUT", <<>>))
        serial  == SerialIn(val_in, val_out)
    IN  IF ~(Truthy(val_out) /\ val_in # val_out) THEN Ok(<<>>)
        ELSE IF serial = "TypeError" THEN Raised("TypeError")
        ELSE IF serial = "FALSE" THEN Ok(<<>>)
        ELSE Ok(<<[Hey("GRUB_TERMINAL_INPUT", 2,
                       "\"{val_in}\" but TERMINAL_OUTPUT=\"{val_out}\" (should match)",
                       <<"TERMINAL_OUTPUT">>)
                   EXCEPT !.words = @ \o <<val_in.s, val_out.s>>]>>)

\* Best Practice Check 7: serial config consistency
serial_check(vals) ==
    LET serial_cmd == GetOr(vals, "GRUB_SERIAL_COMMAND", <<>>)
        term_in  == unquote(GetOr(vals, "GRUB_TERMINAL_INPUT", <<"c", "o", "n", "s", "o", "l", "e">>))
        term_out == unquote(GetOr(vals, "GRUB_TERMINAL_OUTPUT", <<>>))
        serial   == SerialIn(term_in, term_out)
    IN  IF serial = "TypeError" THEN Raised("TypeError")
        ELSE Ok((IF Truthy(serial_cmd) /\ serial = "FALSE"
                 THEN <<Hey("GRUB_SERIAL_COMMAND", 2,
                            "set but no serial terminal configured", <<>>)>>
                 ELSE <<>>)
                \o (IF serial = "TRUE" /\ ~Truthy(serial_cmd)
                    THEN <<Hey(IF Contains(term_in.s, Serial)
                               THEN "GRUB_TERMINAL_INPUT"
                               ELSE "GRUB_TERMINAL_OUTPUT", 2,
                               "serial terminal needs SERIAL_COMMAND set",
                               <<"SERIAL_COMMAND">>)>>
                    ELSE <<>>))

\* Advanced Check 1: SAVEDEFAULT=true but DEFAULT is numeric
numeric_default_check(vals) ==
    LET default_value == unquote(GetOr(vals, "GRUB_DEFAULT", <<"0">>))
    IN  IF ~Has(vals, "GRUB_SAVEDEFAULT") THEN Raised("KeyError")
        ELSE IF ~InQuotes(vals["GRUB_SAVEDEFAULT"], True) THEN Ok(<<>>)
        ELSE IF default_value.k # "str" THEN Raised("AttributeError")
        ELSE IF AllDigits(default_value.s)
             THEN Ok(<<Hey("GRUB_DEFAULT", 1,
                           "avoid numeric when SAVEDEFAULT=\"true\"",
                           <<"SAVEDEFAULT">>)>>)
             ELSE Ok(<<>>)

\* Common Mistake Check 1, for one of the two CMDLINE parameters
spaces_check(vals, p) ==
    LET value == Get(vals, p)
        inner == unquote(value).s
    IN  IF value.k = "none" THEN Ok(<<>>)
        ELSE IF value.k # "str" THEN Raised("TypeError")
        ELSE IF /\ Contains(value.s, <<" ">>)
                /\ value.s \notin {inner, Quoted("\"", inner), Quoted("'", inner)}
             THEN Ok(<<Hey(p, 2, "has spaces and thus must be quoted", <<>>)>>)
             ELSE Ok(<<>>)

\* Common Mistake Check 2, for GRUB_BACKGROUND or GRUB_THEME
path_check(vals, p1, exists) ==
    LET val == GetOr(vals, p1, <<>>)
    IN  IF ~Truthy(val) THEN Ok(<<>>)
        ELSE IF val.k # "str" THEN Raised("AttributeError")
        ELSE IF get_full_path_and_check_existence(val.s, exists) THEN Ok(<<>>)
        ELSE Ok(<<Hey(p1, 2, "path does not seem to exist", <<>>)>>)

SafeModes == {<<"6", "4", "0", "x", "4", "8", "0">>, <<"8", "0", "0", "x", "6", "0", "0">>, <<"1", "0", "2", "4", "x", "7", "6", "8">>, <<"a", "u", "t", "o">>, <<"k", "e", "e", "p">>}

\* Common Mistake Check 4: GFXMODE set but not a known safe value
gfxmode_check(vals) ==
    LET value == Get(vals, "GRUB_GFXMODE")
        modes == Split(unquote(value).s, ",")
    IN  IF ~Truthy(value) THEN Ok(<<>>)
        ELSE IF value.k # "str" THEN Raised("AttributeError")
        ELSE IF \E j \in DOMAIN modes : Lower(Strip(modes[j])) \notin SafeModes
             THEN Ok(<<Hey("GRUB_GFXMODE", 1,
                           "perhaps unsupported; stick to common values", <<>>)>>)
             ELSE Ok(<<>>)

\* Common Mistake Check 5: missing GRUB_DISTRIBUTOR; no value of the model
\* starts with a backquote
distributor_check(vals) ==
    LET val  == GetOr(vals, "GRUB_DISTRIBUTOR", <<>>)
        warn == Ok(<<Hey("GRUB_DISTRIBUTOR", 2,
                         "should be distro name (it is missing/empty)", <<>>)>>)
    IN  IF ~Truthy(val) THEN warn
        ELSE IF val.k # "str" THEN Raised("AttributeError")
        ELSE IF /\ ~StartsWith(val.s, <<"$", "(">>)
                /\ Strip(val.s) = <<>>
             THEN warn
             ELSE Ok(<<>>)

\* OS-PROBER disabled on a dual-boot system, or enabled on a single-boot one
os_prober_check(vals, layout) ==
    LET is_prober_disabled == InQuotes(Get(vals, "GRUB_DISABLE_OS_PROBER"), True)
    IN  IF is_prober_disabled /\ layout.has_another_os
        THEN Ok(<<Hey("GRUB_DISABLE_OS_PROBER", 2,
                      "suggest setting \"false\" since multi-boot detected", <<>>)>>)
        ELSE IF ~is_prober_disabled /\ ~layout.has_another_os
        THEN Ok(<<Hey("GRUB_DISABLE_OS_PROBER", 1,
                      "perhaps set \"true\" since no multi-boot detected?", <<>>)>>)
        ELSE Ok(<<>>)

RecordfailLimit == 120

\* timeout_limits, for GRUB_RECORDFAIL_TIMEOUT
recordfail_limit_check(vals) ==
    LET val == IF Has(vals, "GRUB_RECORDFAIL_TIMEOUT")
               THEN Str(unquote(vals["GRUB_RECORDFAIL_TIMEOUT"]))
               ELSE <<"N", "o", "n", "e">>
    IN  IF AllDigits(val) /\ StrToNat(val) > RecordfailLimit
        THEN <<Hey("GRUB_RECORDFAIL_TIMEOUT", 1, "over 120s seems ill advised", <<>>)>>
        ELSE <<>>

\* the rules that follow the rule of SAVEDEFAULT
other_checks(vals, layout, exists) ==
    <<Ok(timeout_checks(vals)),
      cmdline_checks(vals, layout),
      cryptodisk_check(vals, layout),
      recovery_check(vals),
      uuid_check(vals),
      terminal_check(vals),
      serial_check(vals),
      numeric_default_check(vals),
      spaces_check(vals, "GRUB_CMDLINE_LINUX"),
      spaces_check(vals, "GRUB_CMDLINE_LINUX_DEFAULT"),
      path_check(vals, "GRUB_BACKGROUND", exists),
      path_check(vals, "GRUB_THEME", exists),
      gfxmode_check(vals),
      distributor_check(vals),
      os_prober_check(vals, layout),
      Ok(enum_checks(vals)),
      Ok(limit_check(vals) \o recordfail_limit_check(vals))>>

\* make_warns(vals) once probe_disk_layout has given layout
make_warns_on(vals, layout, exists) ==
    Chain(<<saved_check(vals)>> \o other_checks(vals, layout, exists))

-----------------------------------------------------------------------------
(* The rows of the HOME screen and of the REVIEW screen.                   *)

Row(param_name, section_name) ==
    [param_name |-> param_name, section_name |-> section_name]

RECURSIVE ParamRows(_, _)
ParamRows(params, names) ==
    IF params = <<>> THEN <<>>
    ELSE (IF Head(params) \in Range(names)
          THEN <<Row(Head(params), None)>> ELSE <<>>)
         \o ParamRows(Tail(params), names)

RECURSIVE SectionRows(_, _, _)
SectionRows(secs, idx, names) ==
    IF idx > Len(secs) THEN <<>>
    ELSE (IF idx > 1 THEN <<Row(None, " ")>> ELSE <<>>)
         \o <<Row(None, secs[idx].name)>>
         \o ParamRows(secs[idx].params, names)
         \o SectionRows(secs, idx + 1, names)

\* GrubWiz.positions as _reinit builds them from the sections `secs`
positions(secs, names) == SectionRows(secs, 1, names)

\* GrubWiz.seen_positions as add_home_body builds them
seen_positions(secs, names, hidden, show_hidden) ==
    LET rows == positions(secs, names)
        keep(j) == \/ rows[j].param_name = None
                   \/ show_hidden
                   \/ rows[j].param_name \notin hidden
        RECURSIVE Pick(_)
        Pick(j) == IF j > Len(rows) THEN <<>>
                   ELSE (IF keep(j) THEN <<rows[j]>> ELSE <<>>) \o Pick(j + 1)
    IN  Pick(1)

\* get_diffs comparing the values themselves instead of their str() forms
get_diffs_by_value(names, prev, values) ==
    LET RECURSIVE Walk(_)
        Walk(j) ==
            IF j > Len(names) THEN <<>>
            ELSE (IF prev[names[j]] # values[names[j]]
                  THEN <<[key |-> names[j], old |-> prev[names[j]],
                          new |-> values[names[j]]]>>
                  ELSE <<>>) \o Walk(j + 1)
    IN  Walk(1)

\* GrubWiz.get_diffs: the changed names, in the order of prev_values
get_diffs(names, prev, values) ==
    LET RECURSIVE Walk(_)
        Walk(j) ==
            IF j > Len(names) THEN <<>>
            ELSE (IF Str(prev[names[j]]) # Str(values[names[j]])
                  THEN <<[key |-> names[j], old |-> prev[names[j]],
                          new |-> values[names[j]]]>>
                  ELSE <<>>) \o Walk(j + 1)
    IN  Walk(1)

DiffKeys(diffs) == [j \in DOMAIN diffs |-> diffs[j].key]

AppendNew(list, x) == IF x \in Range(list) THEN list ELSE Append(list, x)

\* the name a word of a warning refers to, or None
OtherName(word, values) ==
    IF ("GRUB_" \o word) \in DOMAIN values THEN "GRUB_" \o word
    ELSE IF word \in DOMAIN values THEN word ELSE None

\* warns.get(name): the warnings attached to one name, in order
HeysOf(warns, name) ==
    LET RECURSIVE Pick(_)
        Pick(j) == IF j > Len(warns) THEN <<>>
                   ELSE (IF warns[j].param = name THEN <<warns[j]>> ELSE <<>>)
                        \o Pick(j + 1)
    IN  Pick(1)

\* warns.keys(): the names with a warning, in the order of their first one
WarnedNames(warns) ==
    LET RECURSIVE Walk(_, _)
        Walk(list, j) == IF j > Len(warns) THEN list
                         ELSE Walk(AppendNew(list, warns[j].param), j + 1)
    IN  Walk(<<>>, 1)

\* the first compilation taking only the warnings of the changed names
compile_must_reviews_of_diffs(names, prev, values) ==
    LET warns == make_warns(values)
        diffs == DiffKeys(get_diffs(names, prev, values))
        RECURSIVE Words(_, _)
        Words(list, ws) ==
            IF ws = <<>> THEN list
            ELSE LET o == OtherName(Head(ws), values)
                 IN  Words(IF o = None THEN list ELSE AppendNew(list, o), Tail(ws))
        RECURSIVE Heys(_, _)
        Heys(list, heys) ==
            IF heys = <<>> THEN list
            ELSE Heys(Words(list, Head(heys).words), Tail(heys))
        RECURSIVE Items(_, _)
        Items(list, j) ==
            IF j > Len(diffs) THEN list
            ELSE Items(Heys(list, HeysOf(warns, diffs[j])), j + 1)
    IN  Items(diffs, 1)

\* add_review_body, first compilation: the changed names, then for each
\* name with warnings the names its messages mention and the name itself
compile_must_reviews(names, prev, values) ==
    LET warns == make_warns(values)
        owners == WarnedNames(warns)
        RECURSIVE Words(_, _)
        Words(list, ws) ==
            IF ws = <<>> THEN list
            ELSE LET o == OtherName(Head(ws), values)
                 IN  Words(IF o = None THEN list ELSE AppendNew(list, o), Tail(ws))
        RECURSIVE Heys(_, _)
        Heys(list, heys) ==
            IF heys = <<>> THEN list
            ELSE Heys(Words(list, Head(heys).words), Tail(heys))
        RECURSIVE Items(_, _)
        Items(list, j) ==
            IF j > Len(owners) THEN list
            ELSE Items(AppendNew(Heys(list, HeysOf(warns, owners[j])), owners[j]),
                       j + 1)
    IN  Items(DiffKeys(get_diffs(names, prev, values)), 1)

Clue(cat, name, msg) == [cat |-> cat, name |-> name, msg |-> msg]

\* the rows of REVIEW without the hidden warnings, whatever show_hidden is
review_clues_hiding(must, names, prev, values, hidden_warns, show_hidden) ==
    LET warns == make_warns(values)
        changed(n) == Str(values[n]) # Str(prev[n])
        RECURSIVE Issues(_, _)
        Issues(n, heys) ==
            IF heys = <<>> THEN <<>>
            ELSE (IF <<n, Head(heys).msg>> \notin hidden_warns
                  THEN <<Clue("issue", n, Head(heys).msg)>> ELSE <<>>)
                 \o Issues(n, Tail(heys))
        RECURSIVE Rows(_)
        Rows(j) ==
            IF j > Len(must) THEN <<>>
            ELSE LET n == must[j]
                 IN  <<Clue("param", n, "")>>
                     \o (IF changed(n) THEN <<Clue("nop", "", "")>> ELSE <<>>)
                     \o Issues(n, HeysOf(warns, n))
                     \o Rows(j + 1)
    IN  Rows(1)

\* add_review_body: the rows of the REVIEW screen (self.clues)
review_clues(must, names, prev, values, hidden_warns, show_hidden) ==
    LET warns == make_warns(values)
        changed(n) == Str(values[n]) # Str(prev[n])
        RECURSIVE Issues(_, _)
        Issues(n, heys) ==
            IF heys = <<>> THEN <<>>
            ELSE (IF <<n, Head(heys).msg>> \notin hidden_warns \/ show_hidden
                  THEN <<Clue("issue", n, Head(heys).msg)>> ELSE <<>>)
                 \o Issues(n, Tail(heys))
        RECURSIVE Rows(_)
        Rows(j) ==
            IF j > Len(must) THEN <<>>
            ELSE LET n == must[j]
                 IN  <<Clue("param", n, "")>>
                     \o (IF changed(n) THEN <<Clue("nop", "", "")>> ELSE <<>>)
                     \o Issues(n, HeysOf(warns, n))
                     \o Rows(j + 1)
    IN  Rows(1)

-----------------------------------------------------------------------------
(* ScreenStack.                                                            *)

Frame(num, pick, scroll, prev) ==
    [num |-> num, pick_pos |-> pick, scroll_pos |-> scroll, prev_pos |-> prev]

\* self.ss = None, before setup_win
NoFrame == Frame(-1, -1, -1, -1)

\* push that appends the current frame without recording the window in it
push_unsaved(curr, stack, pick, scroll, screen, prev) ==
    [curr   |-> Frame(screen, -1, -1, -1),
     stack  |-> IF curr = NoFrame THEN stack ELSE Append(stack, curr),
     pick   |-> 0,
     scroll |-> 0,
     rv     |-> 0]

\* ScreenStack.push(screen, prev_pos): curr, stack, the window and the result
push(curr, stack, pick, scroll, screen, prev) ==
    [curr   |-> Frame(screen, -1, -1, -1),
     stack  |-> IF curr = NoFrame THEN stack
                ELSE Append(stack, Frame(curr.num, pick, scroll, prev)),
     pick   |-> 0,
     scroll |-> 0,
     rv     |-> 0]

\* ScreenStack.pop(), called with a non-empty stack
pop(curr, stack, pick, scroll) ==
    LET top == stack[Len(stack)]
    IN  [curr   |-> top,
         stack  |-> SubSeq(stack, 1, Len(stack) - 1),
         pick   |-> top.pick_pos,
         scroll |-> top.scroll_pos,
         rv     |-> top.prev_pos]

Clamp(lo, hi, x) == Max(Min(hi, x), lo)

\* adjust_picked_pos: the read of seen_positions[pos] that follows the clamp
\* of pos to 1 or more raises IndexError
adjust_raises(seen, pick, prev) ==
    LET start == Max(Min(Len(seen) - 1, pick), 1)
    IN  ~(start = pick /\ start = prev) /\ start >= Len(seen)

\* adjust_picked_pos that clamps the position and skips no row
adjust_picked_pos_clamping(seen, pick, prev) ==
    Max(Min(Len(seen) - 1, pick), 1)

\* adjust_picked_pos: the new pick_pos on HOME, over the rows `seen`
adjust_picked_pos(seen, pick, prev) ==
    LET n == Len(seen)
        start == Max(Min(n - 1, pick), 1)
        up == start >= prev
        Sect(ns) == ns.section_name # None
        RECURSIVE Back(_, _)
        Back(pos, ns) ==
            IF ~Sect(ns) THEN [pos |-> pos, ns |-> ns, keep_going |-> TRUE]
            ELSE LET q == pos + (IF up THEN -1 ELSE 1)
                 IN  IF 0 <= q /\ q < n THEN Back(q, seen[q + 1])
                     ELSE [pos |-> Clamp(0, n - 1, q), ns |-> ns,
                           keep_going |-> FALSE]
        RECURSIVE Fwd(_, _)
        Fwd(pos, ns) ==
            IF ~Sect(ns) THEN [pos |-> pos, ns |-> ns]
            ELSE LET q == pos + (IF up THEN 1 ELSE -1)
                 IN  IF 0 <= q /\ q < n THEN Fwd(q, seen[q + 1])
                     ELSE LET r == Back(Clamp(0, n - 1, q), ns)
                          IN  IF r.keep_going THEN Fwd(r.pos, r.ns)
                              ELSE [pos |-> r.pos, ns |-> r.ns]
        pass1 == Fwd(start, seen[start + 1])
        pass2 == Fwd(pass1.pos, pass1.ns)
    IN  IF start = pick /\ start = prev THEN start ELSE pass2.pos

\* adjust_picked_pos_w_clues: the new pick_pos on REVIEW, over the rows `clues`
adjust_picked_pos_w_clues(clues, pick, prev) ==
    LET n == Len(clues)
        start == Max(Min(n - 1, pick), 0)
        RECURSIVE Skip(_, _)
        Skip(pos, up) ==
            IF clues[pos + 1].cat # "nop" THEN pos
            ELSE LET q == pos + (IF up THEN 1 ELSE -1)
                 IN  IF 0 <= q /\ q < n THEN Skip(q, up)
                     ELSE Clamp(0, n - 1, q)
        pass1 == Skip(start, start >= prev)
        pass2 == Skip(pass1, ~(start >= prev))
    IN  IF clues = <<>> THEN pick
        ELSE IF start = pick /\ start = prev THEN start
        ELSE pass2

-----------------------------------------------------------------------------
(* WizHides: the hidden parameters, the hidden warnings and the count of   *)
(* changes not yet written.                                                *)

Hider(params, warns, dirty) ==
    [params |-> params, warns |-> warns, dirty_count |-> dirty]

is_hidden_param(h, name) == name \in h.params
is_hidden_warn(h, composite_id) == composite_id \in h.warns

hide_param(h, name) ==
    IF name \notin h.params
    THEN [h EXCEPT !.params = @ \cup {name}, !.dirty_count = @ + 1]
    ELSE h

\* unhide_param that leaves the name in the set
unhide_param_keeping(h, name) ==
    IF name \in h.params THEN [h EXCEPT !.dirty_count = @ + 1] ELSE h

unhide_param(h, name) ==
    IF name \in h.params
    THEN [h EXCEPT !.params = @ \ {name}, !.dirty_count = @ + 1]
    ELSE h

\* hide_warn that counts a change on every call
hide_warn_counting(h, composite_id) ==
    [h EXCEPT !.warns = @ \cup {composite_id}, !.dirty_count = @ + 1]

hide_warn(h, composite_id) ==
    IF composite_id \notin h.warns
    THEN [h EXCEPT !.warns = @ \cup {composite_id}, !.dirty_count = @ + 1]
    ELSE h

unhide_warn(h, composite_id) ==
    IF composite_id \in h.warns
    THEN [h EXCEPT !.warns = @ \ {composite_id}, !.dirty_count = @ + 1]
    ELSE h

(* hidden-items.yaml.  A document is what yaml.safe_load makes of the file, *)
(* or the reason why there is nothing to load: the file is "missing",      *)
(* "unreadable" (open raises IOError), "unparseable" (YAMLError), "empty"  *)
(* (safe_load gives None or another false value), a non-empty top-level    *)
(* "sequence" or "scalar", or a "mapping".  The values of the keys params  *)
(* and warns of a mapping are a "list" (held as the set of its items, the  *)
(* only thing set(...) keeps of it), a "str", a "number" or "absent".      *)
ListOf(items) == [t |-> "list", v |-> items]
StrOf(chars)  == [t |-> "str", v |-> chars]
NumberValue   == [t |-> "number", v |-> {}]
AbsentKey     == [t |-> "absent", v |-> {}]
Doc(kind, params, warns) == [kind |-> kind, params |-> params, warns |-> warns]

\* data = {'params': sorted(list(self.params)), 'warns': sorted(...)} as
\* yaml.safe_dump writes it and yaml.safe_load reads it back
safe_dump(h) == Doc("mapping", ListOf(h.params), ListOf(h.warns))

\* set(data.get(key, [])): the items of a list, the characters of a string,
\* nothing for a missing key, and a TypeError for a value that cannot be
\* iterated
SetOf(value) ==
    CASE value.t = "list"   -> [raised |-> None, items |-> value.v]
      [] value.t = "str"    -> [raised |-> None, items |-> value.v]
      [] value.t = "absent" -> [raised |-> None, items |-> {}]
      [] OTHER              -> [raised |-> "TypeError", items |-> {}]

\* WizHides.refresh on the document `doc`: the hider it leaves and the
\* exception that leaves it, None when it returns.  Only IOError and
\* yaml.YAMLError are caught.
refresh(doc) ==
    LET cleared == Hider({}, {}, 0)
        left(h, e) == [h |-> h, raised |-> e]
        p == SetOf(doc.params)
        w == SetOf(doc.warns)
    IN  CASE doc.kind \in {"missing", "unreadable", "unparseable", "empty"} ->
                left(cleared, None)
          [] doc.kind \in {"sequence", "scalar"} ->
                left(cleared, "AttributeError")
          [] OTHER ->
                IF p.raised # None THEN left(cleared, p.raised)
                ELSE IF w.raised # None
                THEN left(Hider(p.items, {}, 0), w.raised)
                ELSE left(Hider(p.items, w.items, 0), None)

\* what the file system does with a write: it is done, open() raises
\* OSError and leaves the file alone, or the file is written and os.chown
\* raises OSError
WriteOutcomes == {"ok", "open_failed", "chown_failed"}

\* write_if_dirty that writes on every call
write_if_dirty_always(h, doc, out) ==
    IF out = "open_failed" THEN [h |-> h, doc |-> doc, ret |-> FALSE]
    ELSE IF out = "chown_failed"
    THEN [h |-> h, doc |-> safe_dump(h), ret |-> FALSE]
    ELSE [h |-> [h EXCEPT !.dirty_count = 0], doc |-> safe_dump(h),
          ret |-> TRUE]

\* write_if_dirty that leaves dirty_count as it is after a write
write_if_dirty_unmarked(h, doc, out) ==
    IF h.dirty_count = 0 THEN [h |-> h, doc |-> doc, ret |-> FALSE]
    ELSE IF out = "open_failed" THEN [h |-> h, doc |-> doc, ret |-> FALSE]
    ELSE IF out = "chown_failed"
    THEN [h |-> h, doc |-> safe_dump(h), ret |-> FALSE]
    ELSE [h |-> h, doc |-> safe_dump(h), ret |-> TRUE]

\* WizHides.write_if_dirty on the hider `h` and the file `doc`, with the
\* outcome `out` of the write: the hider, the file and the value returned
write_if_dirty(h, doc, out) ==
    IF h.dirty_count = 0 THEN [h |-> h, doc |-> doc, ret |-> FALSE]
    ELSE IF out = "open_failed" THEN [h |-> h, doc |-> doc, ret |-> FALSE]
    ELSE IF out = "chown_failed"
    THEN [h |-> h, doc |-> safe_dump(h), ret |-> FALSE]
    ELSE [h |-> [h EXCEPT !.dirty_count = 0], doc |-> safe_dump(h),
          ret |-> TRUE]

-----------------------------------------------------------------------------
(* GrubWiz: what the handlers of main_loop read.                           *)

\* self.must_reviews = None
NoReviews == <<None>>

NoFile == BackupFile(0, <<>>, [n \in Range(DefinedNames) |-> Absent])
NoArg  == [name |-> None, doomed |-> NoFile]

\* the catalog with the first kt choices of GRUB_TIMEOUT and the first ks of
\* GRUB_TIMEOUT_STYLE
Catalog(kt, ks) ==
    LET keep(n) == IF n = "GRUB_TIMEOUT" THEN kt ELSE ks
    IN  [n \in Range(DefinedNames) |->
            [Payload(n) EXCEPT
                !.enums = SubSeq(@, 1, Min(keep(n), Len(Payload(n).enums)))]]

\* _reinit: param_cfg, and param_values / prev_values read from the file
\* for the names that are not absent
CatalogCfg == Catalog(MaxChoices, MaxChoices)

\* _reinit that reads a value for every name of the catalog
ReinitValuesAll(tgt) == [n \in Range(DefinedNames) |-> ParsedValue(tgt, n)]

ReinitValues(tgt) == [n \in Range(param_names) |-> ParsedValue(tgt, n)]

CurScreen == ss_curr.num

\* the rows of the body of the current frame
HomeRows   == seen_positions(sections, param_names, hider_params,
                             show_hidden_params)
ReviewRows == review_clues(must_reviews, param_names, prev_values,
                           param_values, hider_warns, show_hidden_warns)

\* _get_enums_regex on HOME: the name of the row under the cursor, or None
RowName(rows) ==
    IF rows # <<>> /\ 0 <= pick_pos /\ pick_pos < Len(rows)
    THEN rows[pick_pos + 1].param_name ELSE None

\* _get_enums_regex on REVIEW: the name of the clue under the cursor if it is
\* the line of a parameter, or None
ClueName(clues) ==
    IF /\ clues # <<>> /\ 0 <= pick_pos /\ pick_pos < Len(clues)
       /\ clues[pick_pos + 1].cat = "param"
    THEN clues[pick_pos + 1].name ELSE None

\* _get_enums_regex: the name under the cursor, or None
CurName ==
    IF CurScreen = HOME_ST THEN RowName(HomeRows)
    ELSE IF CurScreen = REVIEW_ST THEN ClueName(ReviewRows)
    ELSE None

\* _get_enums_regex: the choices and the pattern of that name
EnumsOf(name) == IF name = None THEN <<>> ELSE param_cfg[name].enums
RegexOf(name) == IF name = None THEN None ELSE param_cfg[name].edit_re

\* find_in that stops at either end of the choices instead of wrapping
find_in_stopping(value, choices) ==
    LET hits == {j \in 1..Len(choices) : Str(value) = Str(choices[j])}
        idx  == IF hits = {} THEN -1
                ELSE (CHOOSE j \in hits : \A m \in hits : j <= m) - 1
        next_idx == Min(idx + 1, Len(choices) - 1)
        prev_idx == Max(idx - 1, 0)
    IN  [idx |-> idx,
         next_idx |-> next_idx, next_value |-> choices[next_idx + 1],
         prev_idx |-> prev_idx, prev_value |-> choices[prev_idx + 1]]

\* GrubWiz.find_in(value, enums) over choices = list(enums.keys())
find_in(value, choices) ==
    LET hits == {j \in 1..Len(choices) : Str(value) = Str(choices[j])}
        idx  == IF hits = {} THEN -1
                ELSE (CHOOSE j \in hits : \A m \in hits : j <= m) - 1
        next_idx == (idx + 1) % Len(choices)
        prev_idx == (idx + Len(choices) - 1) % Len(choices)
    IN  [idx |-> idx,
         next_idx |-> next_idx, next_value |-> choices[next_idx + 1],
         prev_idx |-> prev_idx, prev_value |-> choices[prev_idx + 1]]

\* really_wanna, on an answer that is not an abort
really_wanna(answer) ==
    LET a == Lower(Strip(answer)) IN a # <<>> /\ Head(a) = "y"

\* inner.replace('\\"', '')
RECURSIVE DropEscapedQuotes(_)
DropEscapedQuotes(cs) ==
    IF cs = <<>> THEN <<>>
    ELSE IF Len(cs) >= 2 /\ cs[1] = "\\" /\ cs[2] = "\""
    THEN DropEscapedQuotes(SubSeq(cs, 3, Len(cs)))
    ELSE <<Head(cs)>> \o DropEscapedQuotes(Tail(cs))

\* the backquote is written "bq"
Dangerous == {";", "&", "|", "<", ">", "(", ")", "{", "}", "[", "]", "$",
              "bq", "\\", "!"}

\* GrubWiz._is_valid_shell_token
is_valid_shell_token(value) ==
    IF value = <<>> THEN TRUE
    ELSE IF Head(value) = "'" /\ value[Len(value)] = "'" /\ Len(value) >= 2
    THEN TRUE
    ELSE IF Head(value) = "\"" /\ value[Len(value)] = "\"" /\ Len(value) >= 2
    THEN "\"" \notin Range(DropEscapedQuotes(SubSeq(value, 2, Len(value) - 1)))
    ELSE /\ Range(value) \cap {" ", "\t", "\n"} = {}
         /\ Range(value) \cap Dangerous = {}

\* add_review_body: must_reviews is compiled by the first REVIEW frame after
\* it was reset
FrameReviews(scr, must, prev, values) ==
    IF scr = REVIEW_ST /\ must = NoReviews
    THEN compile_must_reviews(param_names, prev, values) ELSE must

\* add_review_body: make_warns, called by every REVIEW frame, probes the disk
\* if the validator holds no layout yet
ReviewProbe(scr) ==
    /\ disk_layout_cache' =
           IF scr = REVIEW_ST
           THEN probe_disk_layout(disk_layout_cache, disk).cache
           ELSE disk_layout_cache
    /\ disk' = disk

\* WizHides.write_if_dirty, called by the HOME and the REVIEW frame, on the
\* hider left by the handler, with the outcome `out` of the write
FrameWrites(scr, params, warns, dirty, out) ==
    LET h == Hider(params, warns, dirty)
        w == IF scr \in {HOME_ST, REVIEW_ST}
             THEN write_if_dirty(h, hidden_yaml, out)
             ELSE [h |-> h, doc |-> hidden_yaml, ret |-> FALSE]
    IN  /\ hider_params' = w.h.params
        /\ hider_warns' = w.h.warns
        /\ dirty_count' = w.h.dirty_count
        /\ hidden_yaml' = w.doc
        /\ ReviewProbe(scr)

\* the frame after a handler that took the flag of its key: do_key set the
\* flag, act_in cleared it
FrameHiderOut(scr, params, warns, dirty, out) ==
    /\ FrameWrites(scr, params, warns, dirty, out)
    /\ spins' = spins

\* the same in a configuration directory that can be written
FrameHider(scr, params, warns, dirty) ==
    FrameHiderOut(scr, params, warns, dirty, "ok")

\* a handler that leaves the hider alone, followed by the next frame
SameHiderOut(scr, out) ==
    /\ FrameHiderOut(scr, hider_params, hider_warns, dirty_count, out)
    /\ UNCHANGED <<show_hidden_params, show_hidden_warns>>

SameHider(scr) == SameHiderOut(scr, "ok")

-----------------------------------------------------------------------------
(* The initial states: grub-wiz is started on a target file, with the      *)
(* backup directory an earlier session may have left.                      *)

\* the target as installed, which sets none of the parameters, and the target
\* an administrator wrote since; the backup directory is empty or holds the
\* "orig" backup an earlier session made of the installed file
PristineFile == [n \in Range(DefinedNames) |-> Absent]
HiddenFile   == [PristineFile EXCEPT !["GRUB_TIMEOUT"] = <<"0">>,
                                     !["GRUB_TIMEOUT_STYLE"] = StyleKeys[3]]
InitTargets  == {HiddenFile}
InitStores   ==
    {<<>>, <<BackupFile(calc_checksum(PristineFile), TagOrig, PristineFile)>>}

EmptyYaml == Doc("missing", ListOf({}), ListOf({}))

Disk(lsblk, blockdevices, efibootmgr, lines, paths) ==
    [lsblk |-> lsblk, blockdevices |-> blockdevices, efibootmgr |-> efibootmgr,
     lines |-> lines, paths |-> paths]

\* a disk with one Linux partition, on a system without efibootmgr, where no
\* theme or background is installed
QuietDisk ==
    Disk("ok", <<<<Partition(S(<<"e", "x", "t", "4">>), S(<<"0", "f", "c", "6", "3", "d", "a", "f", "-", "8", "4", "8", "3", "-", "4", "7", "7", "2", "-", "8", "e", "7", "9", "-", "3", "d", "6", "9", "d", "8", "4", "7", "7", "d", "e", "4">>))>>>>, "missing", <<>>, {})

\* a call of make_warns: its values, the layout it used, the paths that
\* existed, and the exception or the warnings it ended with
Call(called, vals, signals, paths, raised, warns) ==
    [called |-> called, vals |-> vals, signals |-> signals, paths |-> paths,
     raised |-> raised, warns |-> warns]
NoCyc == [name |-> None, dir |-> 0, count |-> 0, from |-> <<>>, hit |-> FALSE]

\* no call of make_warns yet
NoCall == Call(FALSE, [n \in {"GRUB_DEFAULT"} |-> S(<<"0">>)], NoCache, {}, None, <<>>)

\* GrubWiz.__init__ with the sections secs and the payloads cfg of the catalog,
\* on the target tgt, the backup directory fs and the hidden-items.yaml an
\* earlier session left, on a system where param_discovery.get_absent reports
\* the names `absent`
StartFrom(secs, cfg, tgt, fs, yaml, absent, d) ==
    /\ pc = "start"
    /\ arg = NoArg
    /\ target = tgt
    /\ files = fs
    /\ backups = <<>>
    /\ sections = secs
    /\ param_cfg = [n \in Range(DefinedNames) \ absent |-> cfg[n]]
    /\ param_names = SelectSeq(DefinedNames, LAMBDA n : n \notin absent)
    /\ param_values = ReinitValues(target)
    /\ prev_values = ReinitValues(target)
    /\ must_reviews = NoReviews
    /\ ss_curr = NoFrame
    /\ ss_stack = <<>>
    /\ pick_pos = 0
    /\ scroll_pos = 0
    /\ prev_pos = -1024
    /\ hidden_yaml = yaml
    /\ hider_params = {}
    /\ hider_warns = {}
    /\ dirty_count = 0
    /\ show_hidden_params = FALSE
    /\ show_hidden_warns = FALSE
    /\ commits = 0
    /\ deletes = 0
    /\ last = ""
    /\ cyc = NoCyc
    /\ spins = {}
    /\ disk_layout_cache = NoCache
    /\ disk = d
    /\ warned = NoCall
    /\ kept = NoCall

\* the same on a disk that the probe reads without an exception and where it
\* finds nothing
StartLess(secs, cfg, tgt, fs, yaml, absent) ==
    StartFrom(secs, cfg, tgt, fs, yaml, absent, QuietDisk)

\* the same on a system where param_discovery.get_absent finds every
\* parameter of the catalog
StartOn(secs, cfg, tgt, fs, yaml) == StartLess(secs, cfg, tgt, fs, yaml, {})

\* the same with the catalog slice and no hidden-items.yaml
Start(cfg, tgt, fs) == StartOn(Sections, cfg, tgt, fs, EmptyYaml)

Init == \E tgt \in InitTargets, fs \in InitStores : Start(CatalogCfg, tgt, fs)

\* _reinit(), ScreenStack(...) and do_start_up_backup() on the target `tgt`;
\* _reinit ends by making the hider, which reads hidden-items.yaml
Fresh(tgt) ==
    LET r == refresh(hidden_yaml)
        b == IF r.raised = None THEN StartUpBackup(files, tgt)
             ELSE [files |-> files, backups |-> backups, ask |-> FALSE]
    IN  /\ sections' = sections
        /\ param_cfg' = param_cfg
        /\ param_names' = param_names
        /\ param_values' = ReinitValues(tgt)
        /\ prev_values' = ReinitValues(tgt)
        /\ must_reviews' = NoReviews
        /\ ss_curr' = Frame(HOME_ST, -1, -1, -1)
        /\ ss_stack' = <<>>
        /\ pick_pos' = 0
        /\ scroll_pos' = 0
        /\ prev_pos' = -1024
        /\ FrameHider(HOME_ST, r.h.params, r.h.warns, 0)
        /\ UNCHANGED <<show_hidden_params, show_hidden_warns>>
        /\ files' = b.files
        /\ backups' = b.backups
        /\ pc' = IF r.raised # None THEN "crashed"
                 ELSE IF b.ask THEN "tag" ELSE "loop"
        /\ arg' = NoArg

\* main_loop up to its first prompt
StartUp ==
    /\ pc = "start"
    /\ Fresh(target)
    /\ UNCHANGED <<target, commits, deletes>>

TagInputs == {<<" ", "c", "\n">>, <<"a", " ", "b">>}

\* do_start_up_backup: the answer to the tag prompt
TagAnswer(answer) ==
    /\ pc = "tag"
    /\ IF ReMatch(TagRegex, Strip(answer))
       THEN /\ files' = create_backup(files, target, Strip(answer))
            /\ pc' = "loop"
       ELSE UNCHANGED <<files, pc>>
    /\ must_reviews' = FrameReviews(CurScreen, must_reviews, prev_values, param_values)
    /\ SameHider(CurScreen)
    /\ UNCHANGED <<arg, sections, param_cfg, param_names, param_values, prev_values,
                   target, backups, screenVars, commits, deletes>>

\* do_start_up_backup: the tag prompt is aborted
TagAbort ==
    /\ pc = "tag"
    /\ pc' = "loop"
    /\ must_reviews' = FrameReviews(CurScreen, must_reviews, prev_values, param_values)
    /\ SameHider(CurScreen)
    /\ UNCHANGED <<arg, sections, param_cfg, param_names, param_values, prev_values,
                   target, files, backups, screenVars, commits, deletes>>

\* the number of rows the cursor moves over
BodyRows ==
    IF CurScreen = HOME_ST THEN Len(HomeRows)
    ELSE IF CurScreen = REVIEW_ST THEN Len(ReviewRows)
    ELSE IF CurScreen = RESTORE_ST THEN Len(backups)
    ELSE 0

\* adjust_picked_pos on HOME with the cursor moved to row p of `seen`: the
\* uncaught IndexError ends main_loop
MoveHome(seen, p) ==
    IF adjust_raises(seen, p, prev_pos)
    THEN /\ pc' = "crashed"
         /\ pick_pos' = p
         /\ prev_pos' = prev_pos
    ELSE /\ pc' = pc
         /\ pick_pos' = adjust_picked_pos(seen, p, prev_pos)
         /\ prev_pos' = pick_pos'

\* adjust_picked_pos_w_clues on REVIEW with the cursor moved to row p of `clues`
MoveReview(clues, p) ==
    /\ pc' = pc
    /\ pick_pos' = adjust_picked_pos_w_clues(clues, p, prev_pos)
    /\ prev_pos' = IF clues = <<>> THEN prev_pos ELSE pick_pos'

\* win.prompt returns None: the window moved the cursor to row p and its view
\* to line s, or the timeout fired with both where they were
NavigateOut(p, s, out) ==
    /\ pc = "loop"
    /\ CurScreen # HELP_ST
    /\ 0 <= p /\ p < Max(BodyRows, 1)
    /\ scroll_pos' = s
    /\ IF CurScreen = HOME_ST THEN MoveHome(HomeRows, p)
       ELSE IF CurScreen = REVIEW_ST THEN MoveReview(ReviewRows, p)
       ELSE /\ pc' = pc
            /\ pick_pos' = p
            /\ prev_pos' = prev_pos
    /\ SameHiderOut(CurScreen, out)
    /\ UNCHANGED <<arg, sessionVars, target, files, backups, ss_curr,
                   ss_stack, commits, deletes>>

\* the same in a configuration directory that can be written
NavigateTo(p, s) == NavigateOut(p, s, "ok")

\* the same with the view left where it was
Navigate(p) == NavigateTo(p, scroll_pos)

\* the quit key ending the session on every screen
QuitEnding ==
    /\ pc = "loop"
    /\ pc' = "done"
    /\ must_reviews' = FrameReviews(CurScreen, must_reviews, prev_values, param_values)
    /\ SameHider(CurScreen)
    /\ UNCHANGED <<arg, sections, param_cfg, param_names, param_values,
                   prev_values, target, files, backups, screenVars, commits,
                   deletes>>

\* the quit key: RESTORE is left for the screen below, any other screen
\* ends the session
Quit ==
    /\ pc = "loop"
    /\ IF CurScreen = RESTORE_ST
       THEN LET r == pop(ss_curr, ss_stack, pick_pos, scroll_pos)
            IN  /\ ss_curr' = r.curr
                /\ ss_stack' = r.stack
                /\ pick_pos' = r.pick
                /\ scroll_pos' = r.scroll
                /\ prev_pos' = r.rv
                /\ pc' = "loop"
       ELSE /\ pc' = "done"
            /\ UNCHANGED screenVars
    /\ must_reviews' = FrameReviews(ss_curr'.num, must_reviews, prev_values, param_values)
    /\ SameHider(ss_curr'.num)
    /\ UNCHANGED <<arg, sections, param_cfg, param_names, param_values, prev_values,
                   target, files, backups, commits, deletes>>

\* the escape key, with a screen below the current one
Escape ==
    /\ pc = "loop"
    /\ ss_stack # <<>>
    /\ LET r == pop(ss_curr, ss_stack, pick_pos, scroll_pos)
       IN  /\ ss_curr' = r.curr
           /\ ss_stack' = r.stack
           /\ pick_pos' = r.pick
           /\ scroll_pos' = r.scroll
           /\ prev_pos' = r.rv
    /\ must_reviews' = FrameReviews(ss_curr'.num, must_reviews, prev_values, param_values)
    /\ SameHider(ss_curr'.num)
    /\ UNCHANGED <<pc, arg, sections, param_cfg, param_names, param_values, prev_values,
                   target, files, backups, commits, deletes>>

\* push(screen, prev_pos) by a handler of main_loop
Enter(screen) ==
    LET r == push(ss_curr, ss_stack, pick_pos, scroll_pos, screen, prev_pos)
    IN  /\ ss_curr' = r.curr
        /\ ss_stack' = r.stack
        /\ pick_pos' = r.pick
        /\ scroll_pos' = r.scroll
        /\ prev_pos' = r.rv

\* the help key showing HELP in place of the current screen
HelpReplacing ==
    /\ pc = "loop"
    /\ CurScreen \in {HOME_ST, REVIEW_ST, RESTORE_ST}
    /\ ss_curr' = Frame(HELP_ST, -1, -1, -1)
    /\ pick_pos' = 0
    /\ scroll_pos' = 0
    /\ prev_pos' = 0
    /\ SameHider(HELP_ST)
    /\ UNCHANGED <<pc, arg, sessionVars, target, files, backups, ss_stack,
                   commits, deletes>>

\* the help key
Help ==
    /\ pc = "loop"
    /\ CurScreen \in {HOME_ST, REVIEW_ST, RESTORE_ST}
    /\ Enter(HELP_ST)
    /\ SameHider(HELP_ST)
    /\ UNCHANGED <<pc, arg, sessionVars, target, files, backups, commits, deletes>>

\* an assignment after which the frame compiles must_reviews again
AssignRecompiling(name, value) ==
    /\ param_values' = [param_values EXCEPT ![name] = value]
    /\ must_reviews' = FrameReviews(CurScreen, NoReviews, prev_values, param_values')
    /\ SameHider(CurScreen)
    /\ UNCHANGED <<sections, param_cfg, param_names, prev_values, target, files,
                   backups, screenVars, commits, deletes>>

\* a handler that assigns one session value, followed by the next frame
Assign(name, value) ==
    /\ param_values' = [param_values EXCEPT ![name] = value]
    /\ must_reviews' = FrameReviews(CurScreen, must_reviews, prev_values, param_values')
    /\ SameHider(CurScreen)
    /\ UNCHANGED <<sections, param_cfg, param_names, prev_values, target, files, backups,
                   screenVars, commits, deletes>>

\* the cycle_next key on a parameter with enums
CycleNextOn(name) ==
    /\ pc = "loop"
    /\ CurScreen \in {HOME_ST, REVIEW_ST}
    /\ EnumsOf(name) # <<>>
    /\ Assign(name, find_in(param_values[name], EnumsOf(name)).next_value)
    /\ UNCHANGED <<pc, arg>>

CycleNext == CycleNextOn(CurName)

\* the cycle_prev key on a parameter with enums
CyclePrevOn(name) ==
    /\ pc = "loop"
    /\ CurScreen \in {HOME_ST, REVIEW_ST}
    /\ EnumsOf(name) # <<>>
    /\ Assign(name, find_in(param_values[name], EnumsOf(name)).prev_value)
    /\ UNCHANGED <<pc, arg>>

CyclePrev == CyclePrevOn(CurName)

\* the undo key that goes back to the default of the catalog
UndoOnDefault(name) ==
    /\ pc = "loop"
    /\ CurScreen = REVIEW_ST
    /\ name # None
    /\ Assign(name, param_cfg[name].default)
    /\ UNCHANGED <<pc, arg>>

\* the undo key on a parameter row of REVIEW
UndoOn(name) ==
    /\ pc = "loop"
    /\ CurScreen = REVIEW_ST
    /\ name # None
    /\ Assign(name, prev_values[name])
    /\ UNCHANGED <<pc, arg>>

Undo == UndoOn(CurName)

\* the show_hidden key
ShowHidden ==
    /\ pc = "loop"
    /\ CurScreen \in {HOME_ST, REVIEW_ST}
    /\ show_hidden_warns' = IF CurScreen = REVIEW_ST THEN ~show_hidden_warns
                            ELSE show_hidden_warns
    /\ show_hidden_params' = IF CurScreen = HOME_ST THEN ~show_hidden_params
                             ELSE show_hidden_params
    /\ FrameHider(CurScreen, hider_params, hider_warns, dirty_count)
    /\ must_reviews' = FrameReviews(CurScreen, must_reviews, prev_values, param_values)
    /\ UNCHANGED <<pc, arg, sections, param_cfg, param_names, param_values,
                   prev_values, target, files, backups, screenVars, commits,
                   deletes>>

\* the hider of the session
CurHider == Hider(hider_params, hider_warns, dirty_count)

\* the clue under the cursor, or a "nop" clue when the cursor is on none
ClueAt(clues) ==
    IF clues # <<>> /\ 0 <= pick_pos /\ pick_pos < Len(clues)
    THEN clues[pick_pos + 1] ELSE Clue("nop", "", "")

\* the hide key on HOME: the parameter `name` under the cursor changes sides
HideParam(h, name) ==
    IF name = None THEN h
    ELSE IF is_hidden_param(h, name) THEN unhide_param(h, name)
    ELSE hide_param(h, name)

\* the hide key on REVIEW: the warning of the clue under the cursor changes
\* sides
HideWarn(h, clue) ==
    IF clue.cat # "issue" THEN h
    ELSE IF is_hidden_warn(h, <<clue.name, clue.msg>>)
    THEN unhide_warn(h, <<clue.name, clue.msg>>)
    ELSE hide_warn(h, <<clue.name, clue.msg>>)

\* the hide key, with the hider `h` it leaves, followed by the next frame,
\* whose write has the outcome `out`
HideOnOut(h, out) ==
    /\ pc = "loop"
    /\ CurScreen \in {HOME_ST, REVIEW_ST}
    /\ FrameHiderOut(CurScreen, h.params, h.warns, h.dirty_count, out)
    /\ must_reviews' = FrameReviews(CurScreen, must_reviews, prev_values, param_values)
    /\ UNCHANGED <<pc, arg, sections, param_cfg, param_names, param_values,
                   prev_values, target, files, backups, screenVars,
                   show_hidden_params, show_hidden_warns, commits, deletes>>

HideOn(h) == HideOnOut(h, "ok")

\* the hider the hide key leaves
HideKey ==
    IF CurScreen = HOME_ST THEN HideParam(CurHider, CurName)
    ELSE HideWarn(CurHider, ClueAt(ReviewRows))

Hide == HideOn(HideKey)

\* a handler that opens a prompt: no frame until it is answered
Ask(prompt, name, doomed) ==
    /\ pc' = prompt
    /\ arg' = [name |-> name, doomed |-> doomed]
    /\ UNCHANGED <<sessionVars, target, files, backups, screenVars, hiderVars,
                   validatorVars, spins, commits, deletes>>

\* a return to the loop that reloads the session from the target
ResumeReloaded ==
    /\ Fresh(target)
    /\ UNCHANGED <<target, commits, deletes>>

\* an aborted or declined prompt: back to the loop and the next frame
Resume ==
    /\ pc' = "loop"
    /\ arg' = NoArg
    /\ must_reviews' = FrameReviews(CurScreen, must_reviews, prev_values, param_values)
    /\ SameHider(CurScreen)
    /\ UNCHANGED <<sections, param_cfg, param_names, param_values, prev_values, target,
                   files, backups, screenVars, commits, deletes>>

\* the edit key on a parameter with a pattern
EditOn(name) ==
    /\ pc = "loop"
    /\ CurScreen \in {HOME_ST, REVIEW_ST}
    /\ RegexOf(name) # None
    /\ Ask("edit", name, NoFile)

Edit == EditOn(CurName)

EditInputs == {<<"7">>, <<"x">>}

\* edit_param that stores whatever is answered
EditAnswerStoring(value) ==
    /\ pc = "edit"
    /\ Assign(arg.name, S(value))
    /\ pc' = "loop"
    /\ arg' = NoArg

\* edit_param: an answer; one that does not match is asked again
EditAnswer(value) ==
    /\ pc = "edit"
    /\ IF ReMatch(param_cfg[arg.name].edit_re, Str(S(value)))
       THEN /\ Assign(arg.name, S(value))
            /\ pc' = "loop"
            /\ arg' = NoArg
       ELSE UNCHANGED progVars

\* edit_param: the prompt is aborted
EditAbort ==
    /\ pc = "edit"
    /\ Resume

\* the expert_edit key on a parameter
ExpertEditOn(name) ==
    /\ pc = "loop"
    /\ CurScreen \in {HOME_ST, REVIEW_ST}
    /\ name # None
    /\ Ask("expert", name, NoFile)

ExpertEdit == ExpertEditOn(CurName)

ExpertInputs == {<<"'", "7", "'">>, <<"a", " ", "b">>}

\* expert_edit_param: an answer; an invalid shell token is asked again
ExpertAnswer(value) ==
    /\ pc = "expert"
    /\ IF value = <<>> \/ is_valid_shell_token(value)
       THEN /\ Assign(arg.name, S(value))
            /\ pc' = "loop"
            /\ arg' = NoArg
       ELSE UNCHANGED progVars

\* expert_edit_param: the prompt is aborted
ExpertAbort ==
    /\ pc = "expert"
    /\ Resume

\* the write key on HOME: REVIEW is entered and its first frame compiles
\* must_reviews
WriteHome ==
    /\ pc = "loop"
    /\ CurScreen = HOME_ST
    /\ Enter(REVIEW_ST)
    /\ must_reviews' = FrameReviews(REVIEW_ST, NoReviews, prev_values, param_values)
    /\ SameHider(REVIEW_ST)
    /\ UNCHANGED <<pc, arg, sections, param_cfg, param_names, param_values, prev_values,
                   target, files, backups, commits, deletes>>

\* the write key on REVIEW: update_grub asks for a confirmation
WriteReview ==
    /\ pc = "loop"
    /\ CurScreen = REVIEW_ST
    /\ Ask("commit", None, NoFile)

YesNoInputs == {<<"y">>, <<" ", "Y", "e", "s">>, <<"n", "o">>, <<>>}

\* update_grub: the confirmation is aborted
CommitAbort ==
    /\ pc = "commit"
    /\ Resume

\* update_grub: the answer does not start with y
CommitDeclined(answer) ==
    /\ pc = "commit"
    /\ ~really_wanna(answer)
    /\ Resume

\* a failed commit that reloads the session as a successful one does
NotOkReloaded(written) ==
    /\ pc = "commit"
    /\ commits < MaxCommits
    /\ target' = commit_validated_grub_config(
                    target, Contents(param_names, param_values, target), written)
    /\ commits' = IF written THEN commits + 1 ELSE commits
    /\ Fresh(target')
    /\ UNCHANGED deletes

\* update_grub after a yes, when ok is False: main_loop goes on as it was
NotOk(written) ==
    /\ pc = "commit"
    /\ commits < MaxCommits
    /\ target' = commit_validated_grub_config(
                    target, Contents(param_names, param_values, target), written)
    /\ commits' = IF written THEN commits + 1 ELSE commits
    /\ pc' = "loop"
    /\ arg' = NoArg
    /\ must_reviews' = FrameReviews(CurScreen, must_reviews, prev_values, param_values)
    /\ SameHider(CurScreen)
    /\ UNCHANGED <<sections, param_cfg, param_names, param_values, prev_values, files,
                   backups, screenVars, deletes>>

\* update_grub: commit_validated_grub_config reports a failure
CommitWriteFailed(answer) ==
    /\ really_wanna(answer)
    /\ NotOk(FALSE)

\* update_grub: the file is written and run_grub_update reports a failure
CommitUpdateFailed(answer) ==
    /\ really_wanna(answer)
    /\ NotOk(TRUE)

\* update_grub: both steps succeed
CommitDone(answer) ==
    /\ pc = "commit"
    /\ really_wanna(answer)
    /\ commits < MaxCommits
    /\ target' = commit_validated_grub_config(
                    target, Contents(param_names, param_values, target), TRUE)
    /\ commits' = commits + 1
    /\ Fresh(target')
    /\ UNCHANGED deletes

\* the enter_restore key taken on REVIEW as well
EnterRestoreOverReview ==
    /\ pc = "loop"
    /\ CurScreen \in {HOME_ST, REVIEW_ST}
    /\ Enter(RESTORE_ST)
    /\ LET b == StartUpBackup(files, target)
       IN  /\ files' = b.files
           /\ backups' = b.backups
           /\ pc' = IF b.ask THEN "tag" ELSE "loop"
    /\ SameHider(RESTORE_ST)
    /\ UNCHANGED <<arg, sessionVars, target, commits, deletes>>

\* the enter_restore key on HOME
EnterRestore ==
    /\ pc = "loop"
    /\ CurScreen = HOME_ST
    /\ Enter(RESTORE_ST)
    /\ LET b == StartUpBackup(files, target)
       IN  /\ files' = b.files
           /\ backups' = b.backups
           /\ pc' = IF b.ask THEN "tag" ELSE "loop"
    /\ SameHider(RESTORE_ST)
    /\ UNCHANGED <<arg, sessionVars, target, commits, deletes>>

\* the backup under the cursor of RESTORE
Picked == ordered_backup_pairs(backups)[pick_pos + 1]

\* the restore key on a backup; `done` is what restore_backup returns
\* the restore key that copies the backup and reads nothing again
RestoreUnread(done) ==
    /\ pc = "loop"
    /\ CurScreen = RESTORE_ST
    /\ 0 <= pick_pos /\ pick_pos < Len(ordered_backup_pairs(backups))
    /\ target' = restore_backup(target, Picked, done)
    /\ UNCHANGED <<pc, arg, sessionVars, backupVars, screenVars, hiderVars,
                   validatorVars, spins, commits, deletes>>

Restore(done) ==
    /\ pc = "loop"
    /\ CurScreen = RESTORE_ST
    /\ 0 <= pick_pos /\ pick_pos < Len(ordered_backup_pairs(backups))
    /\ target' = restore_backup(target, Picked, done)
    /\ Fresh(target')
    /\ UNCHANGED <<commits, deletes>>

\* the delete key on a backup: really_wanna asks for a confirmation
Delete ==
    /\ pc = "loop"
    /\ CurScreen = RESTORE_ST
    /\ 0 <= pick_pos /\ pick_pos < Len(ordered_backup_pairs(backups))
    /\ Ask("delete", None, Picked)

\* delete: the confirmation is aborted
DeleteAbort ==
    /\ pc = "delete"
    /\ Resume

\* delete: the answer does not start with y
DeleteDeclined(answer) ==
    /\ pc = "delete"
    /\ ~really_wanna(answer)
    /\ Resume

\* delete: the file is unlinked and the list refreshed
DeleteConfirmed(answer) ==
    /\ pc = "delete"
    /\ really_wanna(answer)
    /\ deletes < MaxDeletes
    /\ deletes' = deletes + 1
    /\ files' = unlink(files, arg.doomed)
    /\ backups' = get_backups(files')
    /\ pc' = "loop"
    /\ arg' = NoArg
    /\ SameHider(CurScreen)
    /\ UNCHANGED <<sessionVars, target, screenVars, commits>>

-----------------------------------------------------------------------------
(* The session: every handler of main_loop.                                *)

\* the rows the window lets the cursor rest on
Picks == 0..(Max(BodyRows, 1) - 1)

\* history: how the handler ended; it ends a run of cycle steps
Note(how) ==
    /\ last' = how
    /\ cyc' = NoCyc
    /\ UNCHANGED <<warned, kept>>

Next ==
    \/ StartUp /\ Note("started")
    \/ \E answer \in TagInputs : TagAnswer(answer) /\ Note(IF pc' = "loop" THEN "tagged" ELSE "")
    \/ TagAbort /\ Note("aborted")
    \/ \E p \in Picks : Navigate(p) /\ Note("")
    \/ Quit /\ Note("quit")
    \/ Escape /\ Note("escaped")
    \/ Help /\ Note("help")
    \/ CycleNext /\ Note("")
    \/ CyclePrev /\ Note("")
    \/ Undo /\ Note("")
    \/ ShowHidden /\ Note("")
    \/ Hide /\ Note("")
    \/ Edit /\ Note("")
    \/ \E value \in EditInputs : EditAnswer(value) /\ Note("")
    \/ EditAbort /\ Note("aborted")
    \/ ExpertEdit /\ Note("")
    \/ \E value \in ExpertInputs : ExpertAnswer(value) /\ Note("")
    \/ ExpertAbort /\ Note("aborted")
    \/ WriteHome /\ Note("")
    \/ WriteReview /\ Note("")
    \/ CommitAbort /\ Note("aborted")
    \/ \E answer \in YesNoInputs : CommitDeclined(answer) /\ Note("")
    \/ \E answer \in YesNoInputs : CommitWriteFailed(answer) /\ Note("write_failed")
    \/ \E answer \in YesNoInputs : CommitUpdateFailed(answer) /\ Note("update_failed")
    \/ \E answer \in YesNoInputs : CommitDone(answer) /\ Note("committed")
    \/ EnterRestore /\ Note("")
    \/ \E done \in BOOLEAN : Restore(done) /\ Note(IF done THEN "restored" ELSE "restore_failed")
    \/ Delete /\ Note("")
    \/ DeleteAbort /\ Note("aborted")
    \/ \E answer \in YesNoInputs : DeleteDeclined(answer) /\ Note("")
    \/ \E answer \in YesNoInputs : DeleteConfirmed(answer) /\ Note("deleted")

Spec == Init /\ [][Next]_vars

-----------------------------------------------------------------------------
(* The session of a user who edits values and reads the review, and never  *)
(* commits nor opens the backups.                                          *)

NextSession ==
    \/ StartUp /\ Note("started")
    \/ \E answer \in TagInputs : TagAnswer(answer) /\ Note(IF pc' = "loop" THEN "tagged" ELSE "")
    \/ TagAbort /\ Note("")
    \/ \E p \in Picks : Navigate(p) /\ Note("")
    \/ Escape /\ Note("")
    \/ CycleNext /\ Note("")
    \/ CyclePrev /\ Note("")
    \/ Undo /\ Note("")
    \/ Edit /\ Note("")
    \/ \E value \in EditInputs : EditAnswer(value) /\ Note("")
    \/ EditAbort /\ Note("")
    \/ ExpertEdit /\ Note("")
    \/ \E value \in ExpertInputs : ExpertAnswer(value) /\ Note("")
    \/ ExpertAbort /\ Note("")
    \/ WriteHome /\ Note("")

SpecSession == Init /\ [][NextSession]_vars

-----------------------------------------------------------------------------
(* The session of a user who types values, commits, and restores and       *)
(* deletes backups.                                                        *)

NextBackup ==
    \/ StartUp /\ Note("started")
    \/ \E answer \in TagInputs : TagAnswer(answer) /\ Note(IF pc' = "loop" THEN "tagged" ELSE "")
    \/ TagAbort /\ Note("")
    \/ \E p \in Picks : Navigate(p) /\ Note("")
    \/ Escape /\ Note("")
    \/ Edit /\ Note("")
    \/ \E value \in EditInputs : EditAnswer(value) /\ Note("")
    \/ EditAbort /\ Note("")
    \/ WriteHome /\ Note("")
    \/ WriteReview /\ Note("")
    \/ CommitAbort /\ Note("")
    \/ \E answer \in YesNoInputs : CommitDeclined(answer) /\ Note("")
    \/ \E answer \in YesNoInputs : CommitWriteFailed(answer) /\ Note("write_failed")
    \/ \E answer \in YesNoInputs : CommitUpdateFailed(answer) /\ Note("update_failed")
    \/ \E answer \in YesNoInputs : CommitDone(answer) /\ Note("committed")
    \/ EnterRestore /\ Note("")
    \/ \E done \in BOOLEAN : Restore(done) /\ Note(IF done THEN "restored" ELSE "restore_failed")
    \/ Delete /\ Note("")
    \/ DeleteAbort /\ Note("")
    \/ \E answer \in YesNoInputs : DeleteDeclined(answer) /\ Note("")
    \/ \E answer \in YesNoInputs : DeleteConfirmed(answer) /\ Note("deleted")

SpecBackup == Init /\ [][NextBackup]_vars

-----------------------------------------------------------------------------
(* The session of a user who opens every prompt and completes no commit,   *)
(* restore or delete.                                                      *)

NextPrompts ==
    \/ StartUp /\ Note("started")
    \/ \E answer \in TagInputs : TagAnswer(answer) /\ Note(IF pc' = "loop" THEN "tagged" ELSE "")
    \/ TagAbort /\ Note("aborted")
    \/ \E p \in Picks : Navigate(p) /\ Note("")
    \/ Escape /\ Note("")
    \/ Edit /\ Note("")
    \/ \E value \in EditInputs : EditAnswer(value) /\ Note("")
    \/ EditAbort /\ Note("aborted")
    \/ ExpertEdit /\ Note("")
    \/ \E value \in ExpertInputs : ExpertAnswer(value) /\ Note("")
    \/ ExpertAbort /\ Note("aborted")
    \/ WriteHome /\ Note("")
    \/ WriteReview /\ Note("")
    \/ CommitAbort /\ Note("aborted")
    \/ \E answer \in YesNoInputs : CommitDeclined(answer) /\ Note("")
    \/ EnterRestore /\ Note("")
    \/ Delete /\ Note("")
    \/ DeleteAbort /\ Note("aborted")
    \/ \E answer \in YesNoInputs : DeleteDeclined(answer) /\ Note("")

SpecPrompts == Init /\ [][NextPrompts]_vars

-----------------------------------------------------------------------------
(* The session of a user who walks the screens: the review, the backups    *)
(* and the help of each of them, moving the cursor and the view.           *)

Scrolls == 0..MaxScroll

NextScreens ==
    \/ StartUp /\ Note("started")
    \/ \E answer \in TagInputs : TagAnswer(answer) /\ Note(IF pc' = "loop" THEN "tagged" ELSE "")
    \/ TagAbort /\ Note("")
    \/ \E p \in Picks, s \in Scrolls : NavigateTo(p, s) /\ Note("")
    \/ Quit /\ Note("quit")
    \/ Escape /\ Note("escaped")
    \/ Help /\ Note("help")
    \/ WriteHome /\ Note("")
    \/ EnterRestore /\ Note("")

SpecScreens == Init /\ [][NextScreens]_vars

-----------------------------------------------------------------------------
(* The session of a user who changes values on HOME and on REVIEW, hides   *)
(* and shows warnings on REVIEW, and reads the help; on the installed and  *)
(* on the edited target.                                                   *)

InitReview ==
    \E tgt \in {PristineFile, HiddenFile} : Start(CatalogCfg, tgt, <<>>)

NextReview ==
    \/ StartUp /\ Note("started")
    \/ \E p \in Picks : Navigate(p) /\ Note("")
    \/ Escape /\ Note("")
    \/ Help /\ Note("")
    \/ CycleNext /\ Note("")
    \/ CyclePrev /\ Note("")
    \/ Undo /\ Note("undone")
    \/ CurScreen = REVIEW_ST /\ ShowHidden /\ Note("")
    \/ CurScreen = REVIEW_ST /\ Hide /\ Note("")
    \/ Edit /\ Note("")
    \/ \E value \in EditInputs : EditAnswer(value) /\ Note("")
    \/ EditAbort /\ Note("")
    \/ WriteHome /\ Note("review")

SpecReview == InitReview /\ [][NextReview]_vars

-----------------------------------------------------------------------------
(* The session of a user who hides and shows parameters on HOME and        *)
(* warnings on REVIEW, cycles the menu style, and moves the cursor over    *)
(* what is left, with the catalog slice in its two sections or in a single *)
(* one.                                                                    *)

\* a catalog that keeps all its parameters in one section
OneSection == <<[name |-> Sections[1].name, params |-> DefinedNames]>>

InitHides ==
    \E secs \in {Sections, OneSection} :
        StartOn(secs, CatalogCfg, HiddenFile, <<>>, EmptyYaml)

\* history: the hide key hid an item, showed one again, or found none
NoteHide ==
    LET before == Cardinality(hider_params) + Cardinality(hider_warns)
        after  == Cardinality(hider_params') + Cardinality(hider_warns')
    IN  Note(IF after > before THEN "hid"
             ELSE IF after < before THEN "unhid" ELSE "")

NextHides ==
    \/ StartUp /\ Note("started")
    \/ \E p \in Picks :
          Navigate(p)
          /\ Note(IF p # pick_pos \/ p # prev_pos THEN "moved" ELSE "redrawn")
    \/ Escape /\ Note("")
    \/ CurName = "GRUB_TIMEOUT_STYLE" /\ CycleNext /\ Note("")
    \/ ShowHidden /\ Note("")
    \/ Hide /\ NoteHide
    \/ WriteHome /\ Note("")

SpecHides == InitHides /\ [][NextHides]_vars

-----------------------------------------------------------------------------
(* Cycling on HOME, over catalogs that keep one to MaxChoices choices of   *)
(* each enumerated parameter, on the installed and on the edited target.   *)

InitCycle ==
    \E kt \in 1..MaxChoices, ks \in 1..MaxChoices,
       tgt \in {PristineFile, HiddenFile} : Start(Catalog(kt, ks), tgt, <<>>)

\* history: one more cycle step, on the parameter `name`, of the run in
\* progress (same parameter, same direction, not yet a
\* full turn), or the first step of a new run
CountOn(dir, name) ==
    /\ UNCHANGED <<warned, kept>>
    /\ last' = ""
    /\ cyc' = IF /\ cyc.name = name /\ cyc.dir = dir
                 /\ cyc.count < Len(EnumsOf(name))
              THEN [cyc EXCEPT !.count = @ + 1]
              ELSE [name  |-> name,
                    dir   |-> dir,
                    count |-> 1,
                    from  |-> Str(param_values[name]),
                    hit   |-> \E j \in DOMAIN EnumsOf(name) :
                                 Str(EnumsOf(name)[j]) = Str(param_values[name])]

Count(dir) == CountOn(dir, CurName)

NextCycle ==
    \/ StartUp /\ Note("started")
    \/ \E p \in Picks : Navigate(p) /\ Note("")
    \/ CycleNext /\ Count(1)
    \/ CyclePrev /\ Count(-1)

SpecCycle == InitCycle /\ [][NextCycle]_vars

\* the run of cycle steps in progress has made a full turn of the choices
FullTurn ==
    /\ cyc.name # None
    /\ cyc.count = Len(param_cfg[cyc.name].enums)

\* C1, as stated: k cycle steps in one direction on a parameter with k choices
\* leave its value string-equal to the value before the first step, whatever
\* that value was.
C1_AnyValueReturns ==
    FullTurn => Str(param_values[cyc.name]) = cyc.from

\* C1, amended: k cycle steps in one direction on a parameter with k choices
\* leave its value string-equal to the value before the first step, when that
\* value string-matched one of the choices.
C1_ChoiceReturns ==
    FullTurn /\ cyc.hit => Str(param_values[cyc.name]) = cyc.from

\* three cyclePrev steps over three choices, begun on a value that matches a
\* choice
C1_Witness ==
    /\ FullTurn
    /\ cyc.hit
    /\ cyc.dir = -1
    /\ cyc.count = 3
    /\ Str(param_values[cyc.name]) = cyc.from

\* the first step of a run begun on a value that matches no choice
FirstFromOutside ==
    /\ cyc.name # None
    /\ cyc.count = 1
    /\ ~cyc.hit

\* C2, first half: from a value that matches no choice, one cycleNext sets the
\* first choice.
C2_NextLandsOnFirst ==
    FirstFromOutside /\ cyc.dir = 1 =>
        param_values[cyc.name] = param_cfg[cyc.name].enums[1]

\* C2, second half: from a value that matches no choice, one cyclePrev sets
\* the last choice.
C2_PrevLandsOnLast ==
    FirstFromOutside /\ cyc.dir = -1 =>
        param_values[cyc.name] =
            param_cfg[cyc.name].enums[Len(param_cfg[cyc.name].enums)]

\* one cyclePrev from a value that matches none of three choices
C2_Witness ==
    /\ FirstFromOutside
    /\ cyc.dir = -1
    /\ Len(param_cfg[cyc.name].enums) = 3

-----------------------------------------------------------------------------
(* Properties of the session (SpecSession).                                *)

Diffs == get_diffs(param_names, prev_values, param_values)

Changed ==
    {n \in Range(param_names) : Str(prev_values[n]) # Str(param_values[n])}

CatalogIndex(n) == CHOOSE j \in DOMAIN param_names : param_names[j] = n

\* C3: in every state of a session get_diffs holds exactly the parameters whose
\* current value and original value differ as strings, each with its (original,
\* current) pair, in the order of the catalog.
C3_DiffsAreTheChanged ==
    /\ {Diffs[j].key : j \in DOMAIN Diffs} = Changed
    /\ Len(Diffs) = Cardinality(Changed)
    /\ \A j \in DOMAIN Diffs :
          /\ Diffs[j].old = prev_values[Diffs[j].key]
          /\ Diffs[j].new = param_values[Diffs[j].key]
    /\ \A i, j \in DOMAIN Diffs :
          i < j => CatalogIndex(Diffs[i].key) < CatalogIndex(Diffs[j].key)

\* two parameters differ from the file, and a third holds another value than
\* the file's with the same string
C3_Witness ==
    /\ pc = "loop"
    /\ Len(Diffs) = 2
    /\ \E n \in Range(param_names) :
          /\ param_values[n] # prev_values[n]
          /\ Str(param_values[n]) = Str(prev_values[n])

-----------------------------------------------------------------------------
(* Properties of the backups, the commit and the restore (SpecBackup).     *)

HasBackup(tgt) == calc_checksum(tgt) \in Checksums(get_backups(files))

\* C4: the directory holds at most one backup per checksum; a create for a
\* checksum that has a backup writes nothing, and a second create right after
\* a first one adds no second file.
C4_OneBackupPerChecksum ==
    /\ \A i, j \in DOMAIN files : files[i].sum = files[j].sum => i = j
    /\ \A tag \in {TagOrig, <<"c">>} :
          LET once == create_backup(files, target, tag)
          IN  /\ HasBackup(target) => once = files
              /\ create_backup(once, target, tag) = once
              /\ Len(once) <= Len(files) + 1

\* a tagged backup was created next to an older one
C4_Witness ==
    /\ last = "tagged"
    /\ Len(files) = 2
    /\ files[2].tag = <<"c">>

C6_FailedCommitAppliesNothing ==
    [][last' \in {"write_failed", "update_failed"} =>
          UNCHANGED <<target, param_values, prev_values, files>>]_vars

\* C7, as stated: after a failed commit the current screen is HOME.
C7_FailedCommitOnHome ==
    last \in {"write_failed", "update_failed"} => CurScreen = HOME_ST

\* C7, amended: after a failed commit the current screen is still REVIEW, with
\* HOME below it on the stack.
C7_FailedCommitOnReview ==
    last \in {"write_failed", "update_failed"} =>
        /\ CurScreen = REVIEW_ST
        /\ Len(ss_stack) = 1
        /\ ss_stack[1].num = HOME_ST
        /\ pc = "loop"

\* the regeneration has failed after the write
C7_Witness ==
    /\ last = "update_failed"
    /\ CurScreen = REVIEW_ST

\* C8, as stated: a restore that fails leaves the target, the current values
\* and the original values as they were.
C8_FailedRestoreKeepsSession ==
    [][last' = "restore_failed" =>
          UNCHANGED <<target, param_values, prev_values>>]_vars

\* C10: a file leaves the backup directory only in the step that follows an
\* affirmative answer to the delete prompt of RESTORE.
C10_OnlyDeleteRemoves ==
    [][(\E f \in Range(files) : f \notin Range(files')) =>
          /\ pc = "delete"
          /\ CurScreen = RESTORE_ST
          /\ \E answer \in YesNoInputs : DeleteConfirmed(answer)
          /\ Range(files') = Range(files) \ {arg.doomed}]_vars

\* a backup has been deleted and another one is left
C10_Witness ==
    /\ last = "deleted"
    /\ Len(files) = 1

-----------------------------------------------------------------------------
(* Properties of the prompts (SpecPrompts).                                *)

\* C9: the abort of an edit, expert-edit, tag or yes/no prompt leaves the
\* values, the hidden sets, the backups, the target and the screen stack as
\* they were and returns to the loop.
C9_AbortChangesNothing ==
    [][(EditAbort \/ ExpertAbort \/ TagAbort \/ CommitAbort \/ DeleteAbort) =>
          /\ UNCHANGED <<param_values, prev_values, hider_params, hider_warns,
                         show_hidden_params, show_hidden_warns, files, target,
                         ss_curr, ss_stack>>
          /\ pc' = "loop"]_vars

\* a prompt was aborted on REVIEW with an unsaved change
C9_Witness ==
    /\ last = "aborted"
    /\ CurScreen = REVIEW_ST
    /\ Len(Diffs) > 0

-----------------------------------------------------------------------------
(* The screens.                                                            *)

\* the frame on top of the stack
TopFrame == ss_stack[Len(ss_stack)]

\* C11: a push records the cursor, the view and the previous position of the
\* current frame and starts the new frame at 0 / 0; the recorded frames are
\* not changed by what happens in the frames above them; the matching pop
\* restores the cursor and the view recorded by the push and returns the
\* previous position given to it, at every depth of the stack.
C11_PopRestoresThePush ==
    [][/\ (ss_curr # NoFrame /\ Len(ss_stack') = Len(ss_stack) + 1) =>
            /\ ss_stack' = Append(ss_stack, Frame(CurScreen, pick_pos,
                                                  scroll_pos, prev_pos))
            /\ pick_pos' = 0
            /\ scroll_pos' = 0
       /\ Len(ss_stack') = Len(ss_stack) => ss_stack' = ss_stack
       /\ Len(ss_stack') < Len(ss_stack) =>
            /\ ss_stack' = SubSeq(ss_stack, 1, Len(ss_stack) - 1)
            /\ ss_curr'.num = TopFrame.num
            /\ pick_pos' = TopFrame.pick_pos
            /\ scroll_pos' = TopFrame.scroll_pos
            /\ prev_pos' = TopFrame.prev_pos]_vars

\* HELP opened over REVIEW, with cursor and view moved on HOME and on REVIEW
\* before, was left: REVIEW is back with its cursor and its view
C11_Witness ==
    /\ last = "escaped"
    /\ CurScreen = REVIEW_ST
    /\ pick_pos > 0 /\ scroll_pos > 0
    /\ Len(ss_stack) = 1
    /\ ss_stack[1].pick_pos > 1 /\ ss_stack[1].scroll_pos > 0

\* C12: the help key is taken on HOME, on REVIEW and on RESTORE and opens HELP
\* over the screen it was pressed on; HELP is left only for that screen, with
\* the cursor and the view that screen had.
C12_HelpReturnsToItsScreen ==
    [][/\ (pc = "loop" /\ CurScreen \in {HOME_ST, REVIEW_ST, RESTORE_ST}) =>
            ENABLED Help
       /\ (CurScreen # HELP_ST /\ CurScreen' = HELP_ST) =>
            /\ last' = "help"
            /\ ss_stack' = Append(ss_stack, Frame(CurScreen, pick_pos,
                                                  scroll_pos, prev_pos))
       /\ (CurScreen = HELP_ST /\ CurScreen' = HELP_ST) => ss_stack' = ss_stack
       /\ (CurScreen = HELP_ST /\ CurScreen' # HELP_ST) =>
            /\ CurScreen' = TopFrame.num
            /\ pick_pos' = TopFrame.pick_pos
            /\ scroll_pos' = TopFrame.scroll_pos]_vars

\* HELP opened over RESTORE was left: RESTORE is back with its cursor and its
\* view
C12_Witness ==
    /\ last = "escaped"
    /\ CurScreen = RESTORE_ST
    /\ pick_pos > 0 /\ scroll_pos > 0

\* C13: the quit key on RESTORE pops back to HOME and the session goes on; the
\* quit key on HOME ends the session.
C13_QuitPopsRestoreEndsHome ==
    [][(pc = "loop" /\ last' = "quit") =>
            /\ CurScreen = RESTORE_ST =>
                    /\ CurScreen' = HOME_ST
                    /\ pc' = "loop"
                    /\ ss_stack' = <<>>
                    /\ pick_pos' = TopFrame.pick_pos
            /\ CurScreen = HOME_ST => pc' = "done"]_vars

\* the quit key on RESTORE brought HOME back, the session going on
C13_Witness ==
    /\ last = "quit"
    /\ pc = "loop"
    /\ CurScreen = HOME_ST
    /\ pick_pos > 1

-----------------------------------------------------------------------------
(* The review.                                                             *)

\* the warnings of the current values, the names that have one, and the
\* catalog names the messages of the warnings of `owners` name
Warnings == make_warns(param_values)
Warned   == {Warnings[j].param : j \in DOMAIN Warnings}
NamedIn(hey) ==
    {OtherName(hey.words[j], param_values) : j \in DOMAIN hey.words} \ {None}
NamedBy(owners) ==
    UNION {NamedIn(Warnings[j]) :
              j \in {k \in DOMAIN Warnings : Warnings[k].param \in owners}}

\* C16, as stated: the list compiled on entering REVIEW holds exactly the
\* changed parameters and the catalog parameters that the warnings of the
\* changed parameters name; no other parameter is in it.
C16_DiffsAndTheirMentions ==
    last = "review" => Range(must_reviews) = Changed \cup NamedBy(Changed)

\* C16, amended: the list compiled on entering REVIEW holds exactly the
\* changed parameters, every parameter that has a warning, and the catalog
\* parameters that any warning names; the changed ones come first, in catalog
\* order, and no name is listed twice.
C16_DiffsAndEveryWarning ==
    last = "review" =>
        /\ Range(must_reviews) = Changed \cup Warned \cup NamedBy(Warned)
        /\ Len(must_reviews) = Cardinality(Range(must_reviews))
        /\ SubSeq(must_reviews, 1, Len(Diffs)) = DiffKeys(Diffs)

\* REVIEW was entered with one changed parameter that has no warning; a
\* parameter that was not changed has a warning and is listed, a parameter
\* without change or warning is not
C16_Witness ==
    /\ last = "review"
    /\ Changed # {}
    /\ NamedBy(Changed) = {}
    /\ \E n \in Warned \ Changed : n \in Range(must_reviews)
    /\ \E n \in Range(param_names) : n \notin Range(must_reviews)

\* REVIEW is shown, or HELP opened over it
InReview ==
    \/ CurScreen = REVIEW_ST
    \/ CurScreen = HELP_ST /\ TopFrame.num = REVIEW_ST

\* C17: from the entry into REVIEW until it is left, no step changes
\* must_reviews: not a cycle, an edit, an undo, the hiding or showing of a
\* warning, the show-hidden key, a redraw by timeout, nor HELP and back;
\* after an undo every listed parameter has its row; must_reviews changes only
\* when REVIEW is entered from HOME or the session is initialised.
C17_ReviewListIsFixed ==
    /\ [](last = "undone" =>
            \A n \in Range(must_reviews) :
                Clue("param", n, "") \in Range(ReviewRows))
    /\ [][/\ (InReview /\ InReview') => must_reviews' = must_reviews
          /\ must_reviews' # must_reviews =>
                \/ pc = "start"
                \/ CurScreen = HOME_ST /\ CurScreen' = REVIEW_ST]_vars

\* an undo on REVIEW left a parameter without change, warning or mention in a
\* warning, which is still listed
C17_Witness ==
    /\ last = "undone"
    /\ CurScreen = REVIEW_ST
    /\ CurName \in Range(must_reviews)
    /\ CurName \notin Changed \cup Warned \cup NamedBy(Warned)

\* the index in `rows` of the k-th parameter row, or one past the end
ParamRowAt(rows, k) ==
    LET at == {j \in DOMAIN rows :
                  /\ rows[j].cat = "param"
                  /\ Cardinality({i \in 1..j : rows[i].cat = "param"}) = k}
    IN  IF at = {} THEN Len(rows) + 1 ELSE CHOOSE j \in at : TRUE

\* the rows that follow the k-th parameter row, up to the next one
RowsAfter(rows, k) ==
    SubSeq(rows, ParamRowAt(rows, k) + 1, ParamRowAt(rows, k + 1) - 1)

\* the warning rows REVIEW owes the parameter n
IssuesShown(n) ==
    LET shown(w) == /\ w.param = n
                    /\ (<<n, w.msg>> \notin hider_warns \/ show_hidden_warns)
        ws == SelectSeq(Warnings, shown)
    IN  [j \in DOMAIN ws |-> Clue("issue", n, ws[j].msg)]

\* C18: the rows of REVIEW are, for each parameter of must_reviews in the order
\* of the list, one parameter row, then one old-value row exactly when the
\* current and the original value differ as strings, then one row for each
\* warning of the parameter that is not hidden, or for each of its warnings
\* when show_hidden_warns is set; and nothing else.
C18_RowsFollowTheList ==
    CurScreen = REVIEW_ST =>
        LET rows == ReviewRows
            params == SelectSeq(rows, LAMBDA r : r.cat = "param")
        IN  /\ [j \in DOMAIN params |-> params[j].name] = must_reviews
            /\ must_reviews # <<>> => rows[1].cat = "param"
            /\ \A k \in DOMAIN must_reviews :
                   RowsAfter(rows, k) =
                       (IF must_reviews[k] \in Changed
                        THEN <<Clue("nop", "", "")>> ELSE <<>>)
                       \o IssuesShown(must_reviews[k])

\* REVIEW shows a changed parameter with its old-value row and a hidden
\* warning, show_hidden_warns being set, and another parameter without either
C18_Witness ==
    /\ CurScreen = REVIEW_ST
    /\ show_hidden_warns
    /\ \E j \in DOMAIN ReviewRows :
          /\ ReviewRows[j].cat = "issue"
          /\ <<ReviewRows[j].name, ReviewRows[j].msg>> \in hider_warns
    /\ \E n \in Range(must_reviews) : n \in Changed
    /\ \E n \in Range(must_reviews) : n \notin Changed /\ IssuesShown(n) = <<>>

-----------------------------------------------------------------------------
(* The hidden items.                                                       *)

\* the names and the warning ids the calls are tried with: those of the
\* catalog and of the validator, the hidden ones, and one foreign to both
ParamItems == Range(DefinedNames) \cup hider_params \cup {"GRUB_FOREIGN"}
WarnItems  ==
    {<<Warnings[j].param, Warnings[j].msg>> : j \in DOMAIN Warnings}
    \cup hider_warns \cup {<<"GRUB_FOREIGN", "foreign">>}

\* the hider g is h after a call that was to leave the sets params and warns:
\* one change counted if the call changed the membership, h itself if not
CallLeft(h, g, changes, params, warns) ==
    IF changes
    THEN g = Hider(params, warns, h.dirty_count + 1)
    ELSE g = h

\* C19: a call of hide_param, unhide_param, hide_warn or unhide_warn for an
\* item already in the state asked for changes neither the hidden sets nor
\* dirty_count, so a repeated call changes nothing; a call that changes the
\* membership of its item changes nothing else in the sets and adds one to
\* dirty_count; the hide key changes exactly the item under the cursor, and
\* the file written after it holds the sets.
C19_HidesAreIdempotent ==
    /\ [](\A x \in ParamItems, k \in WarnItems :
            LET h == CurHider
            IN  /\ CallLeft(h, hide_param(h, x), x \notin h.params,
                            h.params \cup {x}, h.warns)
                /\ CallLeft(h, unhide_param(h, x), x \in h.params,
                            h.params \ {x}, h.warns)
                /\ CallLeft(h, hide_warn(h, k), k \notin h.warns,
                            h.params, h.warns \cup {k})
                /\ CallLeft(h, unhide_warn(h, k), k \in h.warns,
                            h.params, h.warns \ {k})
                /\ hide_param(hide_param(h, x), x) = hide_param(h, x)
                /\ unhide_param(unhide_param(h, x), x) = unhide_param(h, x)
                /\ hide_warn(hide_warn(h, k), k) = hide_warn(h, k)
                /\ unhide_warn(unhide_warn(h, k), k) = unhide_warn(h, k))
    /\ [][last' \in {"hid", "unhid"} =>
            /\ Cardinality((hider_params' \ hider_params)
                           \cup (hider_params \ hider_params')
                           \cup (hider_warns' \ hider_warns)
                           \cup (hider_warns \ hider_warns')) = 1
            /\ hidden_yaml' = safe_dump(Hider(hider_params', hider_warns', 0))
            /\ dirty_count' = 0]_vars

\* a parameter and a warning are hidden, and the hide key has just shown an
\* item again
C19_Witness ==
    /\ last = "unhid"
    /\ hider_params # {}
    /\ hider_warns # {}

\* C20, as stated: hide_param(x) followed by unhide_param(x) leaves
\* is_hidden_param(x) as it was before the pair, whether x was hidden or not.
C20_PairKeepsVisibility ==
    \A x \in ParamItems :
        is_hidden_param(unhide_param(hide_param(CurHider, x), x), x)
            = is_hidden_param(CurHider, x)

\* C20, amended: hide_param(x) followed by unhide_param(x) leaves x not
\* hidden and every other hidden item as it was; is_hidden_param(x) is as
\* before the pair when x was not hidden before it.
C20_PairLeavesShown ==
    \A x \in ParamItems :
        LET h == CurHider
            g == unhide_param(hide_param(h, x), x)
        IN  /\ ~is_hidden_param(g, x)
            /\ g.params = h.params \ {x}
            /\ g.warns = h.warns
            /\ x \notin h.params => is_hidden_param(g, x) = is_hidden_param(h, x)

\* the hide key has hidden a parameter; another one is not hidden
C20_Witness ==
    /\ last = "hid"
    /\ hider_params # {}
    /\ Range(DefinedNames) \ hider_params # {}

-----------------------------------------------------------------------------
(* The cursor.                                                             *)

\* the rows the cursor may rest on: the parameters on HOME, every row but the
\* old-value rows on REVIEW
HomeSelectable   == {j \in DOMAIN HomeRows : HomeRows[j].param_name # None}
ReviewSelectable == {j \in DOMAIN ReviewRows : ReviewRows[j].cat # "nop"}

\* C14: when the rows hold a selectable one, a request that moves the cursor
\* leaves it on a selectable row, whatever row was asked for and from where;
\* the redraws that follow leave it there.
C14_MovesEndOnSelectable ==
    /\ []((last = "moved" /\ pc = "loop") =>
            /\ (CurScreen = HOME_ST /\ HomeSelectable # {}) =>
                    pick_pos + 1 \in HomeSelectable
            /\ (CurScreen = REVIEW_ST /\ ReviewSelectable # {}) =>
                    pick_pos + 1 \in ReviewSelectable)
    /\ [][(last \in {"moved", "redrawn"} /\ last' = "redrawn") =>
            pick_pos' = pick_pos]_vars

\* the cursor was moved onto the last parameter of HOME that is shown, the
\* rows after it being the blank row and the header of a section whose
\* parameters are hidden, and the row before it a header
C14_Witness ==
    /\ last = "moved"
    /\ CurScreen = HOME_ST
    /\ pick_pos + 1 \in HomeSelectable
    /\ \A j \in HomeSelectable : j <= pick_pos + 1
    /\ pick_pos + 1 < Len(HomeRows)
    /\ HomeRows[pick_pos].param_name = None

\* C15, as stated: for every list of rows, the one of a single row and the one
\* without a selectable row included, the adjustment of the cursor ends and
\* leaves the cursor within the rows.
C15_SkipStaysInBounds ==
    last \in {"moved", "redrawn"} =>
        /\ pc # "crashed"
        /\ CurScreen = HOME_ST => 0 <= pick_pos /\ pick_pos < Len(HomeRows)
        /\ (CurScreen = REVIEW_ST /\ ReviewRows # <<>>) =>
                0 <= pick_pos /\ pick_pos < Len(ReviewRows)

\* the session ended on the IndexError, HOME showing the header of the only
\* section and no parameter
C15_Witness ==
    /\ pc = "crashed"
    /\ Len(HomeRows) = 1
    /\ HomeSelectable = {}

-----------------------------------------------------------------------------
(* The visibility store: a session started on the hidden-items.yaml an     *)
(* earlier session, an editor or a crash left, in a configuration          *)
(* directory whose writes may fail.                                        *)

HiddenTimeout ==
    <<"GRUB_TIMEOUT", "should be positive int when TIMEOUT_STYLE=\"hidden\"">>

Documents ==
    {Doc(k, ListOf({}), ListOf({})) :
        k \in {"missing", "unreadable", "unparseable", "empty", "sequence",
               "scalar"}}
    \cup {Doc("mapping", ListOf({}), ListOf({})),
          Doc("mapping", ListOf({"GRUB_TIMEOUT"}), ListOf({HiddenTimeout})),
          Doc("mapping", StrOf({"a", "b"}), ListOf({})),
          Doc("mapping", NumberValue, ListOf({})),
          Doc("mapping", ListOf({"GRUB_TIMEOUT"}), NumberValue),
          Doc("mapping", AbsentKey, ListOf({HiddenTimeout}))}

InitStore ==
    \E yaml \in Documents : StartOn(Sections, CatalogCfg, HiddenFile, <<>>, yaml)

\* history: a frame with no key pressed found nothing to write, or tried to
\* write what an earlier frame could not
NoteFrame(out) == Note(IF dirty_count = 0 THEN "idle" ELSE "retry_" \o out)

NextStore ==
    \/ StartUp /\ Note("started")
    \/ \E p \in Picks, out \in WriteOutcomes :
          NavigateOut(p, scroll_pos, out) /\ NoteFrame(out)
    \/ Escape /\ Note("")
    \/ ShowHidden /\ Note("")
    \/ /\ pc = "loop"
       /\ \E h \in {HideKey}, out \in WriteOutcomes :
             /\ h.dirty_count <= MaxDirty
             /\ HideOnOut(h, out)
             /\ Note("hide_" \o out)
    \/ WriteHome /\ Note("")

SpecStore == InitStore /\ [][NextStore]_vars

-----------------------------------------------------------------------------
(* C21: write_if_dirty *)

\* C21: a frame with no key pressed writes hidden-items.yaml only if
\* dirty_count is not 0, and with dirty_count 0 it changes neither the file
\* nor the hider; a write that succeeds leaves in the file the two lists that
\* hold the hidden sets of the hider, leaves the sets as they were and
\* dirty_count 0, after a frame with no key pressed and after the hide key;
\* the first frame of a session, whose hider was just read, writes nothing.
C21_WritesIffDirty ==
    [][/\ (last' = "started") =>
              /\ hidden_yaml' = hidden_yaml
              /\ dirty_count' = 0
       /\ (last' = "idle" /\ pc' = "loop") =>
              /\ dirty_count = 0
              /\ UNCHANGED <<hider_params, hider_warns, dirty_count, hidden_yaml>>
       /\ (last' \in {"retry_ok", "retry_open_failed", "retry_chown_failed"}) =>
              /\ dirty_count # 0
              /\ UNCHANGED <<hider_params, hider_warns>>
       /\ (last' = "retry_ok" /\ pc' = "loop") =>
              /\ hidden_yaml' = safe_dump(CurHider)
              /\ dirty_count' = 0
       /\ (last' = "hide_ok") =>
              /\ dirty_count' = 0
              /\ hidden_yaml' # hidden_yaml => hidden_yaml' = safe_dump(CurHider')
      ]_vars

\* a frame wrote the hidden parameter that an earlier frame could not write
C21_Witness ==
    /\ last = "retry_ok"
    /\ dirty_count = 0
    /\ hider_params # {}
    /\ hidden_yaml = safe_dump(CurHider)

-----------------------------------------------------------------------------
(* C22: refresh *)

\* the document the hider writes: a mapping with the two lists
TwoLists(doc) ==
    doc.kind = "mapping" /\ doc.params.t = "list" /\ doc.warns.t = "list"

\* C22: a session started on a hidden-items.yaml that is missing, unreadable,
\* unparseable or parseable without being the mapping with the two lists
\* starts: no exception ends it, and it starts with both hidden sets empty
\* and dirty_count 0.
C22_RefreshNeverRaises ==
    (last = "started" /\ ~TwoLists(hidden_yaml)) =>
        /\ pc # "crashed"
        /\ hider_params = {}
        /\ hider_warns = {}
        /\ dirty_count = 0

\* a session started on a file that holds a top-level sequence ended with
\* the AttributeError of data.get
C22_Witness ==
    /\ last = "started"
    /\ pc = "crashed"
    /\ hidden_yaml.kind = "sequence"
    /\ refresh(hidden_yaml).raised = "AttributeError"

\* a file that is missing, unreadable, unparseable or empty starts the
\* session with nothing hidden
C22_NothingToLoad ==
    (last = "started"
     /\ hidden_yaml.kind \in {"missing", "unreadable", "unparseable", "empty"}) =>
        /\ pc # "crashed"
        /\ CurHider = Hider({}, {}, 0)

-----------------------------------------------------------------------------
(* C23: undo *)

\* C23: the undo key on the row of a parameter gives that parameter the value
\* it had when the session was read, so that get_diffs no longer lists it, and
\* changes the session value of no other parameter and no value of
\* prev_values.
C23_UndoRestoresOne ==
    [][last' = "undone" =>
          \E n \in {CurName} :
              /\ n # None
              /\ param_values' = [param_values EXCEPT ![n] = prev_values[n]]
              /\ prev_values' = prev_values
              /\ n \notin Range(DiffKeys(get_diffs(param_names, prev_values',
                                                   param_values')))
      ]_vars

\* an undo left a listed parameter at the value read, while another
\* parameter is still changed
C23_Witness ==
    /\ last = "undone"
    /\ \E n, o \in Range(param_names) :
          /\ n \in Range(must_reviews)
          /\ param_values[n] = prev_values[n]
          /\ n \notin Range(WarnedNames(make_warns(param_values)))
          /\ Str(param_values[o]) # Str(prev_values[o])

-----------------------------------------------------------------------------
(* The two edit prompts, with the answers an administrator may type.       *)

EditTries ==
    {<<"7">>, <<"-", "1">>, <<"7", "\n">>, <<"x">>, <<"7", "x">>, <<"-">>, <<>>}

ExpertTries ==
    {<<>>, <<"a", "b">>, <<"'">>, <<"'", "7", "'">>, <<"\"", "a", " ", "b", "\"">>,
     <<"\"", "a", "\\", "\"", "b", "\"">>, <<"\"", "a", "\"", "b", "\"">>,
     <<"a", " ", "b">>, <<"a", ";", "b">>, <<"a", "\t">>,
     <<"'", "a", "'", " ", "b", "'">>, <<"'", "a", "'", ";", "b", "'">>}

\* history: the answer typed at the prompt of the parameter
NoteAnswer(how, value) ==
    /\ last' = how
    /\ cyc' = [NoCyc EXCEPT !.name = arg.name, !.from = value]
    /\ UNCHANGED <<warned, kept>>

NextEdit ==
    \/ StartUp /\ Note("started")
    \/ \E p \in Picks : Navigate(p) /\ Note("")
    \/ WriteHome /\ Note("")
    \/ Escape /\ Note("")
    \/ Edit /\ Note("")
    \/ \E value \in EditTries : EditAnswer(value) /\ NoteAnswer("edit", value)
    \/ EditAbort /\ Note("")
    \/ CurName = "GRUB_CMDLINE_LINUX" /\ ExpertEdit /\ Note("")
    \/ \E value \in ExpertTries :
          ExpertAnswer(value) /\ NoteAnswer("expert", value)
    \/ ExpertAbort /\ Note("")

SpecEdit == Start(CatalogCfg, HiddenFile, <<>>) /\ [][NextEdit]_vars

-----------------------------------------------------------------------------
(* C24: edit *)

\* the texts "^-?\d+$" matches under re.match: an optional minus sign and one
\* digit or more, and nothing else but a final newline
IntText(text) ==
    LET t == IF text # <<>> /\ text[Len(text)] = "\n"
             THEN SubSeq(text, 1, Len(text) - 1) ELSE text
        u == IF t # <<>> /\ t[1] = "-" THEN SubSeq(t, 2, Len(t)) ELSE t
    IN  u # <<>> /\ \A j \in 1..Len(u) : u[j] \in Range(Digits)

\* C24: an answer to the edit prompt that matches the pattern of the
\* parameter is stored as its session value and closes the prompt; one that
\* does not match is not stored, changes no session value and leaves the
\* prompt open; so the value of a parameter with a pattern is the one read
\* from the file or one that matches the pattern.
C24_EditStoresOnlyMatches ==
    /\ [][last' = "edit" =>
             LET value == cyc'.from
                 name == arg.name
             IN  /\ param_cfg[name].edit_re = "^-?\\d+$"
                 /\ IF IntText(value)
                    THEN /\ param_values' = [param_values EXCEPT ![name] = S(value)]
                         /\ pc' = "loop"
                    ELSE /\ param_values' = param_values
                         /\ pc' = "edit"
                         /\ arg' = arg
       ]_vars
    /\ [](\A n \in DOMAIN param_values :
            param_cfg[n].edit_re # None =>
                \/ param_values[n] = prev_values[n]
                \/ IntText(Str(param_values[n])))

\* a matching answer was stored, and a non-matching answer left the prompt
\* open on the unchanged value
C24_Witness ==
    /\ last = "edit"
    /\ cyc.from = <<"7", "x">>
    /\ pc = "edit"
    /\ param_values["GRUB_TIMEOUT"] = S(<<"7">>)
    /\ prev_values["GRUB_TIMEOUT"] # S(<<"7">>)

-----------------------------------------------------------------------------
(* C25: expert_edit *)

\* the answer is enclosed in the quote q and no quote q inside it is without
\* a backslash before it
FullyQuoted(value, q) ==
    /\ Len(value) >= 2
    /\ value[1] = q
    /\ value[Len(value)] = q
    /\ \A j \in 2..(Len(value) - 1) : value[j] = q => value[j - 1] = "\\"

\* the answers the expert prompt is to accept
SafeShellToken(value) ==
    \/ value = <<>>
    \/ FullyQuoted(value, "'")
    \/ FullyQuoted(value, "\"")
    \/ /\ \A j \in 1..Len(value) : ~IsSpace(value[j])
       /\ Range(value) \cap Dangerous = {}

\* C25: the expert prompt stores an answer exactly when it is empty, enclosed
\* in single or in double quotes with no unescaped quote of that kind inside,
\* or free of whitespace and of the characters ; & | < > ( ) { } [ ] $
\* backquote backslash and !; any other answer changes no session value
\* and leaves the prompt open.
C25_ExpertAcceptsSafeTokens ==
    [][last' = "expert" =>
          LET value == cyc'.from
              name == arg.name
          IN  IF SafeShellToken(value)
              THEN /\ param_values' = [param_values EXCEPT ![name] = S(value)]
                   /\ pc' = "loop"
              ELSE /\ param_values' = param_values
                   /\ pc' = "expert"
      ]_vars

\* the answer 'a' b', which closes its quote before the blank, was stored
C25_Witness ==
    /\ last = "expert"
    /\ cyc.from = <<"'", "a", "'", " ", "b", "'">>
    /\ pc = "loop"
    /\ param_values["GRUB_CMDLINE_LINUX"] = S(cyc.from)

\* an answer between two ends that are quotes of the kind q
Enclosed(value, q) ==
    Len(value) >= 2 /\ value[1] = q /\ value[Len(value)] = q

\* what holds of the answers not enclosed in single quotes: one enclosed in
\* double quotes is stored exactly when no double quote inside it is without
\* a backslash before it, any other exactly when it is empty or free of
\* blanks, tabs, newlines and the listed characters
C25_OtherAnswers ==
    [][(last' = "expert" /\ ~Enclosed(cyc'.from, "'")) =>
          LET value == cyc'.from
              safe == IF Enclosed(value, "\"") THEN FullyQuoted(value, "\"")
                      ELSE /\ \A j \in 1..Len(value) : ~IsSpace(value[j])
                           /\ Range(value) \cap Dangerous = {}
          IN  IF safe
              THEN /\ param_values' = [param_values EXCEPT ![arg.name] = S(value)]
                   /\ pc' = "loop"
              ELSE /\ param_values' = param_values
                   /\ pc' = "expert"
      ]_vars

-----------------------------------------------------------------------------
(* Sessions on a system where a parameter of the catalog may be absent.    *)

AbsentSets == {{}, {"GRUB_TIMEOUT"}}

InitKeys ==
    \E absent \in AbsentSets :
        StartLess(Sections, CatalogCfg, HiddenFile, <<>>, EmptyYaml, absent)

NextKeys ==
    \/ StartUp /\ Note("started")
    \/ \E p \in Picks : Navigate(p) /\ Note("")
    \/ Escape /\ Note("")
    \/ CycleNext /\ Note("")
    \/ Undo /\ Note("")
    \/ CurScreen = HOME_ST /\ Hide /\ Note("")
    \/ Edit /\ Note("")
    \/ \E value \in EditInputs : EditAnswer(value) /\ Note("")
    \/ EditAbort /\ Note("")
    \/ CurName = "GRUB_CMDLINE_LINUX" /\ ExpertEdit /\ Note("")
    \/ \E value \in ExpertInputs : ExpertAnswer(value) /\ Note("")
    \/ ExpertAbort /\ Note("")
    \/ WriteHome /\ Note("")
    \/ WriteReview /\ Note("")
    \/ CommitAbort /\ Note("")
    \/ \E answer \in YesNoInputs : CommitDone(answer) /\ Note("committed")

SpecKeys == InitKeys /\ [][NextKeys]_vars

-----------------------------------------------------------------------------
(* C26: the key sets of the session *)

\* the names of the catalog, section by section
CatalogNames ==
    UNION {Range(sections[j].params) : j \in DOMAIN sections}

\* C26: in every state the session values and the values read from the file
\* have the same keys, which are the names of the catalog that _reinit kept
\* as not absent (the keys of param_cfg, listed by param_names); cycling,
\* editing, expert editing, undoing, hiding and the re-initialisation after a
\* commit keep the three sets equal.
C26_KeySetsAgree ==
    /\ DOMAIN param_values = DOMAIN prev_values
    /\ DOMAIN param_values = DOMAIN param_cfg
    /\ DOMAIN param_values = Range(param_names)
    /\ DOMAIN param_values \subseteq CatalogNames

\* a session re-initialised by a commit on a system where a parameter of the
\* catalog is absent, with a changed value written
C26_Witness ==
    /\ last = "committed"
    /\ commits = 1
    /\ CatalogNames \ DOMAIN param_values # {}
    /\ target # HiddenFile

-----------------------------------------------------------------------------
(* Sessions that change values, scroll, commit and restore.                *)

NextRebuild ==
    \/ StartUp /\ Note("started")
    \/ \E answer \in TagInputs : TagAnswer(answer) /\ Note("")
    \/ TagAbort /\ Note("")
    \/ \E p \in Picks, s \in Scrolls : NavigateTo(p, s) /\ Note("")
    \/ Escape /\ Note("")
    \/ CurName = "GRUB_TIMEOUT_STYLE" /\ CycleNext /\ Note("")
    \/ WriteHome /\ Note("")
    \/ WriteReview /\ Note("")
    \/ CommitAbort /\ Note("")
    \/ \E answer \in YesNoInputs : CommitUpdateFailed(answer) /\ Note("update_failed")
    \/ \E answer \in YesNoInputs : CommitDone(answer) /\ Note("committed")
    \/ EnterRestore /\ Note("")
    \/ \E done \in BOOLEAN : Restore(done) /\ Note(IF done THEN "restored" ELSE "restore_failed")

SpecRebuild == Start(CatalogCfg, HiddenFile, <<>>) /\ [][NextRebuild]_vars

-----------------------------------------------------------------------------
(* C27: the session after a commit or a restore *)

\* C27: after a commit that wrote the file and regenerated the menu, and
\* after a restore that copied the backup, the session values and the values
\* to compare them with are both the values read from the target file, so
\* that get_diffs is empty; must_reviews is None; the screen stack holds HOME
\* alone; the cursor is on row 0 and the view starts at row 0.
C27_RebuiltFromTarget ==
    last \in {"committed", "restored"} =>
        /\ param_values = [n \in Range(param_names) |-> ParsedValue(target, n)]
        /\ prev_values = param_values
        /\ get_diffs(param_names, prev_values, param_values) = <<>>
        /\ must_reviews = NoReviews
        /\ ss_curr.num = HOME_ST
        /\ ss_stack = <<>>
        /\ pick_pos = 0
        /\ scroll_pos = 0

\* a commit wrote a changed value and the session was read again from the
\* file that holds it
C27_Witness ==
    /\ last = "committed"
    /\ target # HiddenFile
    /\ param_values = [n \in Range(param_names) |-> ParsedValue(target, n)]
    /\ ss_stack = <<>>
    /\ pick_pos = 0

\* a restore copied a backup that differs from the session and the session
\* was read again from it
C27_RestoreWitness ==
    /\ last = "restored"
    /\ commits = 1
    /\ target = HiddenFile
    /\ prev_values = param_values
    /\ ss_stack = <<>>

-----------------------------------------------------------------------------
(* The validator alone: one WizValidator built on the catalog, called with  *)
(* values of every shape on disks of every kind, which change between the   *)
(* calls (SpecValidator).                                                   *)

With(vals, n, v) == [m \in DOMAIN vals \cup {n} |-> IF m = n THEN v ELSE vals[m]]
Without(vals, n) == [m \in DOMAIN vals \ {n} |-> vals[m]]

\* values that raise no warning on a disk where the probe finds nothing
BaseVals ==
    [n \in {"GRUB_DEFAULT", "GRUB_SAVEDEFAULT", "GRUB_TIMEOUT",
            "GRUB_TIMEOUT_STYLE", "GRUB_CMDLINE_LINUX",
            "GRUB_CMDLINE_LINUX_DEFAULT", "GRUB_DISTRIBUTOR",
            "GRUB_DISABLE_OS_PROBER"} |->
        CASE n = "GRUB_DEFAULT" -> S(<<"0">>)
          [] n = "GRUB_SAVEDEFAULT" -> S(<<"f", "a", "l", "s", "e">>)
          [] n = "GRUB_TIMEOUT" -> S(<<"5">>)
          [] n = "GRUB_TIMEOUT_STYLE" -> S(<<"m", "e", "n", "u">>)
          [] n = "GRUB_CMDLINE_LINUX" -> S(<<>>)
          [] n = "GRUB_CMDLINE_LINUX_DEFAULT" -> S(<<"\"", "q", "u", "i", "e", "t", "\"">>)
          [] n = "GRUB_DISTRIBUTOR" -> S(<<"U", "b", "u", "n", "t", "u">>)
          [] n = "GRUB_DISABLE_OS_PROBER" -> S(True)]

Defaults ==
    {S(Saved), S(Quoted("\"", Saved)), S(Quoted("'", Saved)), S(<<"0">>), I(0)}
SaveDefaults ==
    {S(True), S(Quoted("\"", True)), S(Quoted("'", True)), S(<<"f", "a", "l", "s", "e">>)}

SavedInputs ==
    {With(With(BaseVals, "GRUB_DEFAULT", d), "GRUB_SAVEDEFAULT", sd) :
        d \in Defaults, sd \in SaveDefaults}
    \cup {Without(With(BaseVals, "GRUB_DEFAULT", d), "GRUB_SAVEDEFAULT") :
             d \in {S(Saved), I(0)}}
    \cup {Without(BaseVals, "GRUB_DEFAULT")}

ThemePath == <<"/", "b", "o", "o", "t", "/", "g", "r", "u", "b", "/", "t">>
ThemeVals == With(BaseVals, "GRUB_THEME", S(ThemePath))
LayoutVals ==
    With(With(With(BaseVals, "GRUB_ENABLE_CRYPTODISK", S(True)),
              "GRUB_DISABLE_OS_PROBER", S(<<"f", "a", "l", "s", "e">>)),
         "GRUB_CMDLINE_LINUX", S(<<"\"", "q", "u", "i", "e", "t", " ", "r", "d", ".", "l", "v", "m", ".", "v", "g", "=", "a", "\"">>))

OtherInputs ==
    {ThemeVals, LayoutVals,
     With(BaseVals, "GRUB_DEFAULT", S(<<"S", "a", "v", "e", "d">>)),
     With(BaseVals, "GRUB_BACKGROUND", S(<<"\"", "$", "p", "r", "e", "f", "i", "x", "/", "t", "\"">>)),
     With(BaseVals, "GRUB_TERMINAL_OUTPUT", S(Serial)),
     Without(BaseVals, "GRUB_CMDLINE_LINUX")}

ValidatorInputs == SavedInputs \cup OtherInputs

\* the calls that are remembered
KeptInputs ==
    {ThemeVals,
     With(With(BaseVals, "GRUB_DEFAULT", S(Saved)), "GRUB_SAVEDEFAULT",
          S(<<"f", "a", "l", "s", "e">>))}

LinuxGuid == <<"0", "f", "c", "6", "3", "d", "a", "f", "-", "8", "4", "8", "3", "-", "4", "7", "7", "2", "-", "8", "e", "7", "9", "-", "3", "d", "6", "9", "d", "8", "4", "7", "7", "d", "e", "4">>
Ext4  == Partition(S(<<"e", "x", "t", "4">>), S(LinuxGuid))
Ntfs  == Partition(S(<<"N", "T", "F", "S">>), S(<<>>))
Luks  == Partition(S(<<"c", "r", "y", "p", "t", "o", "_", "L", "U", "K", "S">>), S(LinuxGuid))
Lvm   == Partition(S(<<>>), S(<<"E", "6", "D", "6", "D", "3", "7", "9", "-", "F", "5", "0", "7", "-", "4", "4", "C", "2", "-", "A", "2", "3", "C", "-", "2", "3", "8", "F", "2", "A", "3", "D", "F", "9", "2", "8">>))
Blank == Partition(NoneValue, S(LinuxGuid))

TwoEntries ==
    <<<<"B", "o", "o", "t", "C", "u", "r", "r", "e", "n", "t", ":", " ", "0", "0", "0", "0">>,
      <<"B", "o", "o", "t", "0", "0", "0", "0", "*", " ", "u", "b", "u", "n", "t", "u">>,
      <<"B", "o", "o", "t", "0", "0", "0", "1", "*", " ", "W", "i", "n", "d", "o", "w", "s", " ", "B", "o", "o", "t", " ", "M", "a", "n", "a", "g", "e", "r">>,
      <<"B", "o", "o", "t", "0", "0", "0", "2", " ", " ", "N", "e", "t", "w", "o", "r", "k">>>>

Disks ==
    {QuietDisk,
     Disk("ok", <<<<Ext4, Ntfs>>>>, "failed", <<>>, {ThemePath}),
     Disk("ok", <<<<Ext4>>, <<Luks, Lvm>>>>, "denied", <<>>, {}),
     Disk("ok", <<<<Ntfs, Luks, Lvm, Blank>>>>, "missing", <<>>, {}),
     Disk("ok", <<<<Ext4, Blank>>>>, "missing", <<>>, {}),
     Disk("ok", <<<<Ext4>>>>, "ok", TwoEntries, {}),
     Disk("missing", <<>>, "missing", <<>>, {}),
     Disk("missing", <<>>, "ok", TwoEntries, {}),
     Disk("failed", <<>>, "ok", TwoEntries, {}),
     Disk("bad_json", <<>>, "failed", <<>>, {}),
     Disk("wrong_shape", <<>>, "missing", <<>>, {}),
     Disk("denied", <<>>, "missing", <<>>, {})}

\* the disks that a disk becomes while the validator lives
LaterDisks ==
    {QuietDisk, Disk("ok", <<<<Ext4, Ntfs>>>>, "failed", <<>>, {ThemePath})}

InitValidator ==
    \E d \in Disks :
        StartFrom(Sections, CatalogCfg, HiddenFile, <<>>, EmptyYaml, {}, d)

\* make_warns that keeps the warnings of the call before in its dict
MakeWarnsKeeping(vals) ==
    LET p   == probe_disk_layout(disk_layout_cache, disk)
        out == IF p.raised # None THEN Raised(p.raised)
               ELSE make_warns_on(vals, p.result, disk.paths)
    IN  /\ disk_layout_cache' = p.cache
        /\ warned' = Call(TRUE, vals, p.result, disk.paths, out.raised,
                          IF out.raised = None THEN warned.warns \o out.warns
                          ELSE <<>>)
        /\ kept' = IF warned.called /\ warned.vals \in KeptInputs
                   THEN warned ELSE kept
        /\ last' = IF disk_layout_cache.probed THEN "warned" ELSE "probed"
        /\ cyc' = NoCyc
        /\ UNCHANGED <<pc, arg, sessionVars, target, backupVars, screenVars,
                       hiderVars, disk, spins, commits, deletes>>

\* make_warns(vals) on the validator: the probe if no layout is held, then
\* the rules; history: the call, and the call before it if it is one of
\* those that are remembered
MakeWarns(vals) ==
    LET p   == probe_disk_layout(disk_layout_cache, disk)
        out == IF p.raised # None THEN Raised(p.raised)
               ELSE make_warns_on(vals, p.result, disk.paths)
    IN  /\ disk_layout_cache' = p.cache
        /\ warned' = Call(TRUE, vals, p.result, disk.paths, out.raised, out.warns)
        /\ kept' = IF warned.called /\ warned.vals \in KeptInputs
                   THEN warned ELSE kept
        /\ last' = IF disk_layout_cache.probed THEN "warned" ELSE "probed"
        /\ cyc' = NoCyc
        /\ UNCHANGED <<pc, arg, sessionVars, target, backupVars, screenVars,
                       hiderVars, disk, spins, commits, deletes>>

\* the disk is repartitioned, a theme is installed or removed, a tool is
\* installed or removed
DiskChanges(d) ==
    /\ d # disk
    /\ disk' = d
    /\ last' = "disk"
    /\ cyc' = NoCyc
    /\ UNCHANGED <<pc, arg, sessionVars, target, backupVars, screenVars,
                   hiderVars, disk_layout_cache, spins, commits, deletes, warned,
                   kept>>

NextValidator ==
    \/ \E vals \in ValidatorInputs : MakeWarns(vals)
    \/ \E d \in LaterDisks : DiskChanges(d)

SpecValidator == InitValidator /\ [][NextValidator]_vars

-----------------------------------------------------------------------------
(* Properties of the validator (SpecValidator).                             *)

AllFalse == Layout(FALSE, FALSE, FALSE)

\* C28: two calls of make_warns on the same validator with the same values
\* and the same disk layout flags, given by the probe, end alike: both raise the same exception or
\* both return the same warnings in the same order, whatever calls were made
\* before and whatever else changed between them.
C28_SameInputsSameWarns ==
    (/\ kept.called /\ warned.called
     /\ kept.vals = warned.vals
     /\ kept.signals.probed
     /\ kept.signals = warned.signals)
    => (kept.raised = warned.raised /\ kept.warns = warned.warns)

\* the same values and the same flags, a theme installed between the two
\* calls: the warning on GRUB_THEME of the first call is not in the second
C28_Witness ==
    /\ kept.called /\ warned.called
    /\ kept.vals = ThemeVals /\ warned.vals = ThemeVals
    /\ kept.signals = AllFalse /\ warned.signals = AllFalse
    /\ kept.raised = None /\ warned.raised = None
    /\ kept.paths = {} /\ warned.paths = {ThemePath}
    /\ \E j \in DOMAIN kept.warns : kept.warns[j].param = "GRUB_THEME"
    /\ \A j \in DOMAIN warned.warns : warned.warns[j].param # "GRUB_THEME"

\* two calls with the same values, the same flags and the same existing paths
\* end alike, whatever calls were made before
C28_SameFilesSameWarns ==
    (/\ kept.called /\ warned.called
     /\ kept.vals = warned.vals
     /\ kept.signals.probed
     /\ kept.signals = warned.signals
     /\ kept.paths = warned.paths)
    => (kept.raised = warned.raised /\ kept.warns = warned.warns)

LsblkFailures == {"missing", "failed", "bad_json", "wrong_shape"}

\* C29: when a call runs the probe and lsblk is missing, exits with a
\* non-zero status or prints output that is not the JSON mapping of block
\* devices, the probe raises no exception: it returns a layout, which the
\* validator keeps, and the three flags of it are False.
C29_FailedProbeGivesNoSignal ==
    (last = "probed" /\ disk.lsblk \in LsblkFailures)
    => /\ warned.signals = AllFalse
       /\ disk_layout_cache = AllFalse

\* lsblk printed JSON that is not a mapping: the call ended with the
\* AttributeError of data.get and the validator holds no layout
C29_Witness ==
    /\ last = "probed"
    /\ disk.lsblk = "wrong_shape"
    /\ warned.raised = "AttributeError"
    /\ warned.signals = NoCache
    /\ disk_layout_cache = NoCache

\* a non-zero status of lsblk gives three False flags, and so do a missing
\* lsblk and undecodable output unless efibootmgr lists two active entries
C29_DecodeFailures ==
    (/\ last = "probed"
     /\ \/ disk.lsblk = "failed"
        \/ /\ disk.lsblk \in {"missing", "bad_json"}
           /\ ~(disk.efibootmgr = "ok" /\ Cardinality(BootEntries(disk.lines)) >= 2))
    => /\ warned.signals = AllFalse
       /\ disk_layout_cache = AllFalse

\* value is word, "word" or 'word'
IsWord(v, word) ==
    v.k = "str" /\ (v.s = word \/ v.s = <<"\"">> \o word \o <<"\"">>
                              \/ v.s = <<"'">> \o word \o <<"'">>)

SavedefaultWarned(warns) ==
    \E j \in DOMAIN warns : warns[j].param = "GRUB_SAVEDEFAULT" /\ warns[j].stars = 4

\* C30: the warnings a call of make_warns returns hold a warning of severity
\* 4 on GRUB_SAVEDEFAULT exactly when GRUB_DEFAULT is saved, "saved" or
\* 'saved' and GRUB_SAVEDEFAULT is none of true, "true" and 'true'.
C30_SavedNeedsSavedefault ==
    (warned.called /\ warned.raised = None)
    => (SavedefaultWarned(warned.warns)
        <=> /\ IsWord(Get(warned.vals, "GRUB_DEFAULT"), Saved)
            /\ ~IsWord(Get(warned.vals, "GRUB_SAVEDEFAULT"), True))

\* GRUB_DEFAULT='saved' with GRUB_SAVEDEFAULT=false: the warning is returned
C30_Witness ==
    /\ warned.called /\ warned.raised = None
    /\ warned.vals["GRUB_DEFAULT"] = S(Quoted("'", Saved))
    /\ Str(warned.vals["GRUB_SAVEDEFAULT"]) = <<"f", "a", "l", "s", "e">>
    /\ SavedefaultWarned(warned.warns)

\* GRUB_DEFAULT="saved" with GRUB_SAVEDEFAULT='true': no warning on it
C30_QuietWitness ==
    /\ warned.called /\ warned.raised = None
    /\ warned.vals["GRUB_DEFAULT"] = S(Quoted("\"", Saved))
    /\ warned.vals["GRUB_SAVEDEFAULT"] = S(Quoted("'", True))
    /\ ~SavedefaultWarned(warned.warns)

-----------------------------------------------------------------------------
(* The rules of the validator, one call at a time: a validator built on the *)
(* catalog, on a disk of any kind, called with values of every shape        *)
(* (SpecRules).                                                             *)

Hidden == <<"h", "i", "d", "d", "e", "n">>

Timeouts ==
    {S(<<"0">>), S(<<"\"", "0", ".", "0", "\"">>), S(<<"'", "0", "'">>), I(0), S(<<"0", "0">>),
     S(<<"5">>), I(5), S(<<"-", "1">>)}
Styles ==
    {S(Hidden), S(Quoted("'", Hidden)), S(<<"m", "e", "n", "u">>), S(<<"\"", "m", "e", "n", "u", "\"">>),
     S(<<"c", "o", "u", "n", "t", "d", "o", "w", "n">>)}

TimeoutInputs ==
    {With(With(BaseVals, "GRUB_TIMEOUT", t), "GRUB_TIMEOUT_STYLE", st) :
        t \in Timeouts, st \in Styles}
    \cup {Without(With(BaseVals, "GRUB_TIMEOUT", t), "GRUB_TIMEOUT_STYLE") :
             t \in {S(<<"0">>), I(5)}}
    \cup {Without(With(BaseVals, "GRUB_TIMEOUT_STYLE", st), "GRUB_TIMEOUT") :
             st \in {S(Hidden), S(<<"c", "o", "u", "n", "t", "d", "o", "w", "n">>)}}

SpacedTexts ==
    {<<"a", " ", "b">>, <<"\"", "a", " ", "b", "\"">>, <<"'", "a", " ", "b", "'">>, <<"\"", "a", " ", "b">>, <<"'", "a", " ", "b", "\"">>,
     <<"\"", "a", "\t", "b">>, <<"a", "b">>}
SpacedNames ==
    {"GRUB_CMDLINE_LINUX", "GRUB_CMDLINE_LINUX_DEFAULT", "GRUB_DISTRIBUTOR"}

SpaceInputs == {With(BaseVals, n, S(t)) : n \in SpacedNames, t \in SpacedTexts}

RuleInputs == TimeoutInputs \cup SpaceInputs

NextRules == \E vals \in RuleInputs : MakeWarns(vals)

SpecRules == InitValidator /\ [][NextRules]_vars

-----------------------------------------------------------------------------
(* Properties of the rules (SpecRules).                                     *)

\* text is a decimal numeral with an optional sign, as float() reads it
IsNumeral(cs) ==
    LET t == Strip(cs)
        u == IF t # <<>> /\ Head(t) \in {"-", "+"} THEN Tail(t) ELSE t
    IN  /\ \E j \in 1..Len(u) : IsDigit(u[j])
        /\ Cardinality({j \in 1..Len(u) : u[j] = "."}) <= 1
        /\ \A j \in 1..Len(u) : IsDigit(u[j]) \/ u[j] = "."

\* the value, without its quotes, is the number zero, or a number above zero
IsZero(v) ==
    IF v.k = "int" THEN v.i = 0
    ELSE /\ v.k = "str"
         /\ IsNumeral(unquote(v).s)
         /\ \A j \in 1..Len(v.s) : ~IsDigit(v.s[j]) \/ v.s[j] = "0"
IsPositive(v) ==
    IF v.k = "int" THEN v.i > 0
    ELSE /\ v.k = "str"
         /\ IsNumeral(unquote(v).s)
         /\ \E j \in 1..Len(v.s) : IsDigit(v.s[j]) /\ v.s[j] # "0"
         /\ \A j \in 1..Len(v.s) : v.s[j] # "-"

WarnedOn(warns, name, stars) ==
    \E j \in DOMAIN warns : warns[j].param = name /\ warns[j].stars = stars

\* C31: the warnings a call of make_warns returns hold a warning of severity
\* 4 on GRUB_TIMEOUT exactly when the timeout is zero and GRUB_TIMEOUT_STYLE
\* is hidden (raw or quoted), and one on GRUB_TIMEOUT_STYLE exactly when the
\* timeout is a number above zero and GRUB_TIMEOUT_STYLE is not menu (raw or
\* quoted); never both, and neither for a zero timeout with menu or countdown.
C31_TimeoutConflicts ==
    (warned.called /\ warned.raised = None)
    => LET t  == Get(warned.vals, "GRUB_TIMEOUT")
           st == Get(warned.vals, "GRUB_TIMEOUT_STYLE")
           on_timeout == WarnedOn(warned.warns, "GRUB_TIMEOUT", 4)
           on_style   == WarnedOn(warned.warns, "GRUB_TIMEOUT_STYLE", 4)
       IN  /\ on_timeout <=> (IsZero(t) /\ IsWord(st, Hidden))
           /\ on_style <=> (IsPositive(t) /\ ~IsWord(st, <<"m", "e", "n", "u">>))
           /\ ~(on_timeout /\ on_style)

\* GRUB_TIMEOUT is the integer 0, the key that cycling stores, and the style
\* is hidden: the call returns no warning on GRUB_TIMEOUT
C31_Witness ==
    /\ warned.called /\ warned.raised = None
    /\ Get(warned.vals, "GRUB_TIMEOUT") = I(0)
    /\ Get(warned.vals, "GRUB_TIMEOUT_STYLE") = S(Hidden)
    /\ ~WarnedOn(warned.warns, "GRUB_TIMEOUT", 4)

\* what the rules do: the first fires for the texts 0 and 0.0, raw or quoted,
\* with hidden; the second for a number above zero without menu; never both
C31_TimeoutTexts ==
    (warned.called /\ warned.raised = None)
    => LET t  == Get(warned.vals, "GRUB_TIMEOUT")
           st == Get(warned.vals, "GRUB_TIMEOUT_STYLE")
           on_timeout == WarnedOn(warned.warns, "GRUB_TIMEOUT", 4)
           on_style   == WarnedOn(warned.warns, "GRUB_TIMEOUT_STYLE", 4)
       IN  /\ on_timeout <=> /\ IsWord(t, <<"0">>) \/ IsWord(t, <<"0", ".", "0">>)
                             /\ IsWord(st, Hidden)
           /\ on_style <=> (IsPositive(t) /\ ~IsWord(st, <<"m", "e", "n", "u">>))
           /\ ~(on_timeout /\ on_style)
           /\ (IsZero(t) /\ (IsWord(st, <<"m", "e", "n", "u">>)
                             \/ st = S(<<"c", "o", "u", "n", "t", "d", "o", "w", "n">>)))
              => ~on_timeout /\ ~on_style

HasSpace(cs) == \E j \in 1..Len(cs) : IsSpace(cs[j])

\* the value is its content without quotes, or that content in double or in
\* single quotes
InOwnForms(v) ==
    LET inner == unquote(v).s
    IN  v.s \in {inner, <<"\"">> \o inner \o <<"\"">>, <<"'">> \o inner \o <<"'">>}

QuotingWarned(warns, name) ==
    \E j \in DOMAIN warns :
        /\ warns[j].param = name
        /\ warns[j].msg = "has spaces and thus must be quoted"

\* C32: for every parameter whose value holds whitespace and is none of the
\* three forms of its content without quotes, the warnings a call of
\* make_warns returns hold a quoting warning on that parameter.
C32_SpacesNeedQuotes ==
    (warned.called /\ warned.raised = None)
    => \A n \in DOMAIN warned.vals :
          (/\ warned.vals[n].k = "str"
           /\ HasSpace(warned.vals[n].s)
           /\ ~InOwnForms(warned.vals[n]))
          => QuotingWarned(warned.warns, n)

\* GRUB_DISTRIBUTOR holds "a b without the closing quote: no quoting warning
C32_Witness ==
    /\ warned.called /\ warned.raised = None
    /\ Get(warned.vals, "GRUB_DISTRIBUTOR") = S(<<"\"", "a", " ", "b">>)
    /\ ~QuotingWarned(warned.warns, "GRUB_DISTRIBUTOR")

\* what the rule does: the quoting warning is on the two CMDLINE parameters
\* only, for a value that holds a blank and is none of its three forms
C32_CmdlineSpaces ==
    (warned.called /\ warned.raised = None)
    => \A n \in DOMAIN warned.vals :
          QuotingWarned(warned.warns, n)
          <=> /\ n \in {"GRUB_CMDLINE_LINUX", "GRUB_CMDLINE_LINUX_DEFAULT"}
              /\ warned.vals[n].k = "str"
              /\ Contains(warned.vals[n].s, <<" ">>)
              /\ ~InOwnForms(warned.vals[n])

\* GRUB_CMDLINE_LINUX holds 'a b" and the call returns the quoting warning
C32_WarnedWitness ==
    /\ warned.called /\ warned.raised = None
    /\ Get(warned.vals, "GRUB_CMDLINE_LINUX") = S(<<"'", "a", " ", "b", "\"">>)
    /\ QuotingWarned(warned.warns, "GRUB_CMDLINE_LINUX")

-----------------------------------------------------------------------------
(* grub-pal (src/grub_pal/main.py): the edit prompt of GrubPal, which       *)
(* validates an answer against the checks of the parameter, a mapping from  *)
(* check keys to checks held in the order of the catalog.  The session      *)
(* values are those of GrubPal; the prompt is opened on GRUB_TIMEOUT        *)
(* (SpecPal).                                                               *)

Check(key, check) == [key |-> key, check |-> check]

\* int(value): the number, or the ValueError
PalInt(cs) ==
    LET t == Strip(cs)
        u == IF t # <<>> /\ Head(t) \in {"-", "+"} THEN Tail(t) ELSE t
    IN  IF ~AllDigits(u) THEN [ok |-> FALSE, n |-> 0]
        ELSE [ok |-> TRUE, n |-> IF Head(t) = "-" THEN -StrToNat(u) ELSE StrToNat(u)]

\* edit_param: the loop over checks.items() for one answer; the checks of min
\* and max are integers
RECURSIVE pal_validate(_, _)
pal_validate(checks, value) ==
    IF checks = <<>> THEN "valid"
    ELSE LET key   == Head(checks).key
             check == Head(checks).check
         IN  IF key = "regex"
             THEN IF ReMatch(check, value) THEN pal_validate(Tail(checks), value)
                  ELSE "reprompt"
             ELSE IF key \in {"min", "max"}
             THEN IF ~PalInt(value).ok THEN "reprompt"
                  ELSE IF key = "min" /\ PalInt(value).n < check THEN "reprompt"
                  ELSE IF key = "max" /\ PalInt(value).n > check THEN "reprompt"
                  ELSE pal_validate(Tail(checks), value)
             ELSE "AssertionError"

IntRegex == "^-?\\d+$"

\* the checks of GRUB_TIMEOUT in the catalog, and checks with another key
\* after, before and between the known ones
CheckSets ==
    {<<Check("regex", IntRegex), Check("min", -1)>>,
     <<Check("regex", IntRegex), Check("step", 5)>>,
     <<Check("step", 5), Check("regex", IntRegex)>>,
     <<Check("min", -1), Check("step", 5), Check("max", 60)>>,
     <<Check("min", -1), Check("max", 60)>>,
     <<Check("step", 5)>>}

PalAnswers ==
    {<<"7">>, <<"-", "2">>, <<"x">>, <<"9", "9">>, <<>>, <<"7", "x">>, <<" ", "6", "1">>}

palRest == <<sections, param_cfg, param_names, prev_values, must_reviews, target,
             backupVars, screenVars, hiderVars, validatorVars, spins, commits,
             deletes>>

\* main_loop up to the first prompt
PalStartUp ==
    /\ pc = "start"
    /\ pc' = "loop"
    /\ UNCHANGED <<arg, param_values, palRest>>

\* the edit key on GRUB_TIMEOUT, whose checks are not empty
PalEdit(checks) ==
    /\ pc = "loop"
    /\ checks # <<>>
    /\ pc' = "edit"
    /\ arg' = [name |-> "GRUB_TIMEOUT", doomed |-> NoFile, checks |-> checks]
    /\ UNCHANGED <<param_values, palRest>>

\* edit_param: an answer, with the outcome of its validation
PalAnswerAs(value, outcome) ==
    /\ pc = "edit"
    /\ pc' = IF outcome = "valid" THEN "loop"
             ELSE IF outcome = "reprompt" THEN "edit" ELSE "crashed"
    /\ arg' = IF outcome = "valid" THEN NoArg ELSE arg
    /\ param_values' = IF outcome = "valid"
                       THEN [param_values EXCEPT ![arg.name] = S(value)]
                       ELSE param_values
    /\ UNCHANGED palRest

PalAnswer(value) == PalAnswerAs(value, pal_validate(arg.checks, value))

\* edit_param: the prompt is aborted
PalAbort ==
    /\ pc = "edit"
    /\ pc' = "loop"
    /\ arg' = NoArg
    /\ UNCHANGED <<param_values, palRest>>

NextPal ==
    \/ PalStartUp /\ Note("")
    \/ \E checks \in CheckSets : PalEdit(checks) /\ Note("")
    \/ \E value \in PalAnswers : PalAnswer(value) /\ NoteAnswer("answered", value)
    \/ PalAbort /\ Note("aborted")

SpecPal == Start(CatalogCfg, HiddenFile, <<>>) /\ [][NextPal]_vars

-----------------------------------------------------------------------------
(* Properties of the edit prompt of grub-pal (SpecPal).                     *)

KnownKeys == {"regex", "min", "max"}
HasUnknownKey(checks) == \E j \in DOMAIN checks : checks[j].key \notin KnownKeys

\* C33: an answer (not an abort) to the edit prompt of a parameter whose
\* checks hold a key other than regex, min and max ends the program with the
\* assertion: it is not stored and the prompt is not shown again.
C33_UnknownKeyAsserts ==
    [][(pc = "edit" /\ last' = "answered" /\ HasUnknownKey(arg.checks))
       => (pc' = "crashed" /\ param_values' = param_values)]_vars

\* the checks hold regex and then step; the answer x was given and the prompt
\* is open again
C33_Witness ==
    /\ last = "answered"
    /\ pc = "edit"
    /\ cyc.from = <<"x">>
    /\ arg.checks = <<Check("regex", IntRegex), Check("step", 5)>>
    /\ param_values["GRUB_TIMEOUT"] = S(<<"0">>)

\* what edit_param does: with such checks no answer is stored, and the
\* assertion ends the program when every check before the unknown key passes
C33_UnknownKeyNeverStores ==
    [][(pc = "edit" /\ last' = "answered" /\ HasUnknownKey(arg.checks))
       => /\ param_values' = param_values
          /\ pc' \in {"crashed", "edit"}
          /\ pc' = "crashed"
             <=> LET first == CHOOSE j \in DOMAIN arg.checks :
                                 /\ arg.checks[j].key \notin KnownKeys
                                 /\ \A m \in 1..(j - 1) :
                                       arg.checks[m].key \in KnownKeys
                 IN  pal_validate(SubSeq(arg.checks, 1, first - 1), cyc'.from)
                     = "valid"]_vars

\* an answer that passes the known checks placed before the unknown key ends
\* the program
C33_AssertedWitness ==
    /\ last = "answered"
    /\ pc = "crashed"
    /\ cyc.from = <<"7">>
    /\ arg.checks = <<Check("regex", IntRegex), Check("step", 5)>>

\* C34: on one validator the probe of the disk runs at most once: the first
\* call of make_warns runs it and no later call runs it again, whether or not
\* the first probe failed.
C34_ProbesOnce ==
    [][(warned.called => last' # "probed")
       /\ (~warned.called /\ warned'.called => last' = "probed")]_vars

\* a call of make_warns has run the probe although an earlier call, which is
\* remembered, ran it before
C34_Witness ==
    /\ last = "probed"
    /\ kept.called
    /\ disk.lsblk = "wrong_shape"
    /\ warned.raised = "AttributeError"
    /\ ~disk_layout_cache.probed

\* what probe_disk_layout does: a layout once held is never replaced and the
\* probe is not run again, also when lsblk failed, was missing or printed no
\* JSON; a probe that raises leaves no layout and the next call runs it again
C34_HeldLayoutIsKept ==
    [][/\ disk_layout_cache.probed
          => (last' # "probed" /\ disk_layout_cache' = disk_layout_cache)
       /\ (~disk_layout_cache.probed /\ warned'.called /\ warned' # warned)
          => /\ last' = "probed"
             /\ disk_layout_cache'.probed
                <=> probe_disk_layout(NoCache, disk).raised = None]_vars

\* the probe failed (lsblk ended with an error), its all-false layout is held
\* and a later call on a disk that has changed reuses it
C34_ReusedWitness ==
    /\ last = "warned"
    /\ disk.lsblk = "ok"
    /\ disk.blockdevices # <<>>
    /\ disk_layout_cache = AllFalse
    /\ warned.signals = AllFalse

-----------------------------------------------------------------------------
(* Properties of the validator across re-initialisations (SpecRebuild).     *)

\* C35: the re-initialisation after a commit or a restore makes a new
\* validator, which holds no layout, so that the first make_warns after it
\* probes the disk again instead of using the layout probed before.
C35_ReinitForgetsLayout ==
    last \in {"committed", "restored"} => ~disk_layout_cache.probed

\* a commit re-initialised the session and the layout probed by the REVIEW
\* frames before it is still held
C35_Witness ==
    /\ last = "committed"
    /\ commits = 1
    /\ disk_layout_cache.probed
    /\ ss_curr.num = HOME_ST

\* what _reinit does: the validator of the first initialisation is kept, so
\* a layout once probed is held to the end of the session
C35_LayoutOutlivesReinit ==
    [][disk_layout_cache.probed => disk_layout_cache' = disk_layout_cache]_vars

\* a restore re-initialised the session after a REVIEW frame had probed
C35_RestoredWitness ==
    /\ last = "restored"
    /\ disk_layout_cache.probed

-----------------------------------------------------------------------------
(* Properties of make_warns on values that lack keys (SpecValidator).       *)

\* C38: make_warns returns its warnings and raises nothing for every values
\* map whose keys are the names of the catalog less the absent ones, and for
\* every layout the probe gave.
C38_NeverRaises ==
    (warned.called /\ warned.signals.probed) => warned.raised = None

\* GRUB_DEFAULT is absent, the probe gave a layout and the call raised
C38_Witness ==
    /\ warned.called
    /\ warned.signals.probed
    /\ "GRUB_DEFAULT" \notin DOMAIN warned.vals
    /\ DOMAIN warned.vals = DOMAIN BaseVals \ {"GRUB_DEFAULT"}
    /\ warned.raised = "KeyError"

Subscripted == {"GRUB_DEFAULT", "GRUB_CMDLINE_LINUX", "GRUB_SAVEDEFAULT"}

\* what make_warns does: on a layout, it raises KeyError only when one of
\* the three names it subscripts is not a key, any other exception only on a
\* value that is not text, and nothing when the three are keys and every
\* value is text
C38_RaisesOnSubscripts ==
    (warned.called /\ warned.signals.probed) =>
        /\ warned.raised = "KeyError"
              => ~(Subscripted \subseteq DOMAIN warned.vals)
        /\ warned.raised \notin {None, "KeyError"}
              => \E n \in DOMAIN warned.vals : warned.vals[n].k # "str"
        /\ (/\ Subscripted \subseteq DOMAIN warned.vals
            /\ \A n \in DOMAIN warned.vals : warned.vals[n].k = "str")
              => warned.raised = None

\* GRUB_CMDLINE_LINUX is absent and the call raised at the quiet rule
C38_CmdlineWitness ==
    /\ warned.called
    /\ warned.signals.probed
    /\ "GRUB_CMDLINE_LINUX" \notin DOMAIN warned.vals
    /\ warned.raised = "KeyError"

-----------------------------------------------------------------------------
(* Sessions that walk the screens, read the help, commit and restore        *)
(* (SpecStack), and the shape of the screen stack.                          *)

NextStack ==
    \/ StartUp /\ Note("started")
    \/ \E answer \in TagInputs : TagAnswer(answer) /\ Note("")
    \/ TagAbort /\ Note("")
    \/ \E p \in Picks : Navigate(p) /\ Note("")
    \/ Quit /\ Note("quit")
    \/ Escape /\ Note("escaped")
    \/ Help /\ Note("help")
    \/ WriteHome /\ Note("")
    \/ WriteReview /\ Note("")
    \/ CommitAbort /\ Note("")
    \/ \E answer \in YesNoInputs : CommitDone(answer) /\ Note("committed")
    \/ EnterRestore /\ Note("")
    \/ \E done \in BOOLEAN : Restore(done) /\ Note(IF done THEN "restored" ELSE "restore_failed")

SpecStack == Start(CatalogCfg, HiddenFile, <<>>) /\ [][NextStack]_vars

\* ScreenStack: the screens of the stack from the bottom to the current one
Screens == [j \in 1..(Len(ss_stack) + 1) |->
               IF j <= Len(ss_stack) THEN ss_stack[j].num ELSE ss_curr.num]

\* C36: in every state after the stack is made the bottom screen of the stack is HOME, REVIEW and
\* RESTORE are only directly above HOME, HELP is only the top screen, the
\* stack holds at most three screens, and where the restore key is taken the
\* screen left by popping RESTORE is HOME, as the assertion demands.
C36_StackShape ==
    pc # "start" =>
        /\ Screens[1] = HOME_ST
        /\ \A j \in DOMAIN Screens :
              /\ Screens[j] = HOME_ST => j = 1
              /\ Screens[j] \in {REVIEW_ST, RESTORE_ST} => j = 2
              /\ Screens[j] = HELP_ST => j = Len(Screens)
        /\ Len(Screens) <= 3
        /\ (pc = "loop" /\ CurScreen = RESTORE_ST)
              => pop(ss_curr, ss_stack, pick_pos, scroll_pos).curr.num = HOME_ST

\* the help is read over RESTORE after a restore has re-initialised the
\* session: three screens
C36_Witness ==
    /\ Screens = <<HOME_ST, RESTORE_ST, HELP_ST>>
    /\ pc = "loop"
    /\ backups # <<>>

-----------------------------------------------------------------------------
(* The cursor after the rows under it changed (SpecHides).                  *)

\* the cursor is on a row it may rest on, if the screen has one
Rests ==
    /\ (CurScreen = HOME_ST /\ HomeSelectable # {}) =>
            pick_pos + 1 \in HomeSelectable
    /\ (CurScreen = REVIEW_ST /\ ReviewSelectable # {}) =>
            pick_pos + 1 \in ReviewSelectable

\* C37: on HOME and REVIEW, after a hide, a show-hidden or an undo left the
\* cursor on a row that cannot be selected, the next redraw on a timeout
\* puts it on a selectable row, if there is one: after a redraw the cursor
\* never rests on a row that cannot be selected.
C37_RedrawAdjustsCursor ==
    (last = "redrawn" /\ pc = "loop") => Rests

\* a parameter of HOME was hidden, the rows moved up under the cursor, and
\* after the redraw the cursor is on a header although parameters are shown
C37_Witness ==
    /\ last = "redrawn"
    /\ pc = "loop"
    /\ CurScreen = HOME_ST
    /\ hider_params # {}
    /\ HomeSelectable # {}
    /\ pick_pos + 1 \notin HomeSelectable
    /\ pick_pos = prev_pos

\* what the redraw does: with the cursor within the rows and where the last
\* adjustment left it (pick_pos = prev_pos) it returns at once, so that the
\* cursor stays on the row it is on, selectable or not
C37_RedrawKeepsCursor ==
    [][(/\ last' = "redrawn"
        /\ \/ CurScreen = HOME_ST
              /\ 1 <= pick_pos /\ pick_pos < Len(HomeRows)
           \/ CurScreen = REVIEW_ST
              /\ (ReviewRows = <<>> \/ pick_pos < Len(ReviewRows)))
       => (pick_pos' = pick_pos /\ prev_pos' = prev_pos)]_vars

-----------------------------------------------------------------------------
(* The visibility store between two inputs (SpecStore).                     *)

FailedWrites ==
    {"hide_open_failed", "hide_chown_failed", "retry_open_failed",
     "retry_chown_failed"}

-----------------------------------------------------------------------------
(* The keys that the current screen does not take (SpecDropped): do_key     *)
(* sets the flag of the key, and main_loop asks act_in for every flag in    *)
(* turn.                                                                    *)

AllScreens == {HOME_ST, REVIEW_ST, RESTORE_ST, HELP_ST}

\* act_in that leaves the flag set when the screen is not one of `screens`
act_in_lazy(flags, action, screens, curr) ==
    LET val == action \in flags /\ curr \in screens
    IN  [val |-> val, flags |-> IF val THEN flags \ {action} ELSE flags]

\* ScreenStack.act_in(action, screens) on the flags that are set, the current
\* screen being curr: the value returned and the flags left
act_in(flags, action, screens, curr) ==
    [val |-> action \in flags /\ curr \in screens, flags |-> flags \ {action}]

\* main_loop: the calls of act_in, in their order, with the screens they name
Handlers ==
    <<[action |-> "escape",        screens |-> AllScreens],
      [action |-> "help_mode",     screens |-> {HOME_ST, REVIEW_ST, RESTORE_ST}],
      [action |-> "cycle_next",    screens |-> {HOME_ST, REVIEW_ST}],
      [action |-> "cycle_prev",    screens |-> {HOME_ST, REVIEW_ST}],
      [action |-> "undo",          screens |-> {REVIEW_ST}],
      [action |-> "show_hidden",   screens |-> {REVIEW_ST, HOME_ST}],
      [action |-> "edit",          screens |-> {HOME_ST, REVIEW_ST}],
      [action |-> "expert_edit",   screens |-> {HOME_ST, REVIEW_ST}],
      [action |-> "hide",          screens |-> {HOME_ST, REVIEW_ST}],
      [action |-> "write",         screens |-> {HOME_ST, REVIEW_ST}],
      [action |-> "enter_restore", screens |-> {HOME_ST}],
      [action |-> "restore",       screens |-> {RESTORE_ST}],
      [action |-> "delete",        screens |-> {RESTORE_ST}]>>

\* main_loop on a key: the handlers whose act_in returns true while the
\* screen stays curr, and the flags left after the last act_in
RECURSIVE key_pass(_, _, _)
key_pass(flags, curr, todo) ==
    IF todo = <<>> THEN [taken |-> {}, flags |-> flags]
    ELSE LET a    == act_in(flags, Head(todo).action, Head(todo).screens, curr)
             rest == key_pass(a.flags, curr, Tail(todo))
         IN  [taken |-> (IF a.val THEN {Head(todo).action} ELSE {}) \cup rest.taken,
              flags |-> rest.flags]

\* the keys that change a value, the hidden items or what is shown
ValueKeys ==
    {"cycle_next", "cycle_prev", "edit", "expert_edit", "undo", "hide",
     "show_hidden", "write"}

\* a key whose handler the current screen does not take, and the next frame
Ignored(flag) ==
    /\ pc = "loop"
    /\ LET r == key_pass(spins \cup {flag}, CurScreen, Handlers)
       IN  /\ r.taken = {}
           /\ spins' = r.flags
    /\ must_reviews' = FrameReviews(CurScreen, must_reviews, prev_values, param_values)
    /\ FrameWrites(CurScreen, hider_params, hider_warns, dirty_count, "ok")
    /\ UNCHANGED <<pc, arg, sections, param_cfg, param_names, param_values,
                   prev_values, target, files, backups, screenVars,
                   show_hidden_params, show_hidden_warns, commits, deletes>>

NextDropped ==
    \/ StartUp /\ Note("started")
    \/ \E p \in Picks : Navigate(p) /\ Note("")
    \/ Escape /\ Note("escaped")
    \/ Help /\ Note("")
    \/ CurName = "GRUB_TIMEOUT_STYLE" /\ CycleNext /\ Note("")
    \/ Undo /\ Note("")
    \/ Hide /\ Note("")
    \/ ShowHidden /\ Note("")
    \/ WriteHome /\ Note("")
    \/ EnterRestore /\ Note("")
    \/ \E flag \in ValueKeys : Ignored(flag) /\ Note("ignored")

SpecDropped == Start(CatalogCfg, HiddenFile, <<>>) /\ [][NextDropped]_vars

\* C39: on HELP and on RESTORE the keys cycle, edit, expert edit, undo,
\* hide, show-hidden and write, and on HOME the key undo, run no handler;
\* such a key changes no session value, nothing of the hidden items and no
\* screen; and it is dropped: no flag is left set when the next input is
\* waited for, so that nothing happens later on HOME or REVIEW.
C39_KeysDropped ==
    /\ [](pc = "loop" =>
            /\ spins = {}
            /\ CurScreen \in {HELP_ST, RESTORE_ST} =>
                  \A flag \in ValueKeys :
                      key_pass({flag}, CurScreen, Handlers).taken = {}
            /\ CurScreen = HOME_ST =>
                  key_pass({"undo"}, CurScreen, Handlers).taken = {})
    /\ [][last' = "ignored" =>
            UNCHANGED <<pc, sessionVars, target, hiderVars, screenVars>>]_vars

\* the undo key was pressed on HELP, which covers a REVIEW that lists a
\* changed value, and nothing changed
C39_Witness ==
    /\ last = "ignored"
    /\ CurScreen = HELP_ST
    /\ Screens = <<HOME_ST, REVIEW_ST, HELP_ST>>
    /\ param_values # prev_values
    /\ spins = {}

=============================================================================
